---- MODULE Spec2Model ----
(***************************************************************************)
(* Trading Engine and Pair Selector of crypto-trading-bot-v4.              *)
(*                                                                         *)
(* The repository holds two variants of the Engine in                      *)
(* services/trading-engine/internal/trader/position_sizing.go:             *)
(*   - lines 965-1515: the Engine with the portfolio-drawdown and          *)
(*     flash-crash circuit breakers (processTradingCycle, processPair,     *)
(*     closePosition).  Modelled by the operators with suffix B; SpecB     *)
(*     runs the circuit breakers, SpecG the basic strategy.                *)
(*   - lines 296-963: the Engine with order reconciliation                 *)
(*     (synchronizeOrderStatuses, checkAndExecuteSLTP,                     *)
(*     executeMarketCloseOrder).  Modelled by the operators with suffix A; *)
(*     SpecA and SpecAU start from the rows of the reconciliation test,    *)
(*     SpecS runs the basic strategy, SpecP polls two resting orders.      *)
(* SpecI adds the signal generator to the ticks of SpecS; SpecR puts the    *)
(* ticks of SpecB inside the loop of Engine.Run.                           *)
(* The Pair Selector (services/pair-selector) is modelled by SpecSel,      *)
(* SpecTop, SpecAn and SpecPub; the token bucket of the exchange client    *)
(* (shared/pkg/kucoin) by SpecL.  SpecGr runs the grid strategy, SpecSL the  *)
(* stop-loss and take-profit decision, SpecC the Scheduler of the Pair     *)
(* Selector with its publications as concurrent transactions.  The legacy  *)
(* single-file bot (src/unnamed/part_002, part_016) is modelled by SpecO    *)
(* (executeOrderSafe) and SpecT (the in-memory pair refresh).              *)
(*                                                                         *)
(* Money: float64 in the source.  The model uses integers and compares     *)
(* percentages by cross-multiplication.  Prices are chosen so that the     *)
(* divisions the code performs are exact; where one is not, the comment    *)
(* at the price says so and the quantity is the whole number of units.     *)
(***************************************************************************)
EXTENDS Integers, Sequences, FiniteSets, TLC

VARIABLES
  now,                          \* wall clock (time.Now), in halt-duration units
  hist,                         \* price_data: per symbol, the closes of the flash-crash window, oldest first
  positions,                    \* table positions, in insertion (created_at) order; the id is the index
  orders,                       \* table orders, in insertion order
  strategy,                     \* table trading_configs: strategy_type per pair ("none" = no row)
  portfolioTradingHaltedUntil,  \* RiskManager field; 0 is the zero time
  pairFlashCrashHaltedUntil,    \* RiskManager map symbol -> deadline; 0 = no entry
  exch,                         \* the exchange's order book entries, in placement order; the exchange id is the index
  selected_pairs,               \* table selected_pairs: the set of its committed rows (symbol, status)
  pubTx,                        \* the Selector's open transaction on selected_pairs (its uncommitted rows), or NoTx
  limiter,                      \* RateLimiter: the tokens in the channel requests
  calls,                        \* the times of the limiter's grants inside the last second
  run,                          \* Engine.Run: position in the loop, the context, the ticker channel
  orderState,                   \* legacy bot: the map pendingOrders and the goroutines of executeOrderSafe
  pairState,                    \* legacy bot: the map activePairs, pairMux and the goroutines using them
  cron,                         \* Selector: the goroutines running Scheduler.selectPairs
  last                          \* observation of the last handler run (what it placed, wrote, returned)

vars == <<now, hist, positions, orders, strategy, portfolioTradingHaltedUntil,
          pairFlashCrashHaltedUntil, exch, selected_pairs, pubTx, limiter, calls, run,
          orderState, pairState, cron, last>>

\* the state of the legacy bot and of the Selector's scheduler
aux == <<orderState, pairState, cron>>

----------------------------------------------------------------------------
(* Bounds of the model *)

\* the clock stops advancing here
MaxTime == 3
\* rows of table positions the model lets the Engine insert (variant B)
MaxRowsB == 1
\* limit orders the model lets the exchange hold (variant A)
MaxExchA == 1

\* rows of table positions the model lets the Engine insert in the strategy runs (variant B)
MaxRowsG == 3
\* limit orders the model lets the exchange hold in the strategy runs (variant A)
MaxExchS == 2
\* rows of trading_pairs the Pair Selector may analyse
MaxTradingPairs == 4

----------------------------------------------------------------------------
(* Configuration (EngineConfig, environment) *)

\* MAX_POSITIONS_PER_PAIR
MaxPositionsPerPair == 2
\* DEFAULT_POSITION_SIZE_USDT; 17100 = lcm(90, 95, 100) keeps size/price exact
DefaultPositionSize == 17100
\* STOP_LOSS_PERCENT 0.05, in percent
StopLossPercent == 5
\* TAKE_PROFIT_PERCENT 0.03, in percent
TakeProfitPercent == 3
\* TOTAL_ACCOUNT_BALANCE
TotalAccountBalance == 100000
\* CB_PORTFOLIO_DRAWDOWN_PERCENT
CBPortfolioDrawdownPercent == 1
\* CB_FLASH_CRASH_DROP_PERCENT
CBFlashCrashDropPercent == 6
\* CB_FLASH_CRASH_WINDOW_MINUTES: one price_data row per minute
CBFlashCrashWindowMinutes == 2
\* CB_TRADING_HALT_DURATION_MINUTES, in clock units
CBTradingHaltDurationMinutes == 1
\* orders.status and positions.status are VARCHAR(20): a longer value fails the statement
StatusColumnWidth == 20
\* MAX_ACTIVE_PAIRS of the Pair Selector (default 8)
MaxActivesPairs == 3

\* the active set of selected_pairs, ORDER BY selection_score DESC
ActivePairs == <<"X", "Y">>
Symbols == {"X", "Y"}
\* closes the Collector may store for a symbol
PricesOf(s) == IF s = "X" THEN {90, 95, 100} ELSE {100}
Signals == {"BUY", "SELL", "HOLD"}

\* the pairs active in the runs of the reconciliation variant
ActivePairsA == <<"X">>

\* the rows of selected_pairs behind an active set
ActiveRows(pairs) == {[symbol |-> pairs[k], status |-> "active"] : k \in 1..Len(pairs)}

\* the symbols of the rows with status active
ActiveSymbols(rows) == {r.symbol : r \in {x \in rows : x.status = "active"}}

\* no transaction is open on selected_pairs
NoTx == [pc |-> "none"]

\* the legacy bot before any order: pendingOrders is declared and holds no key;
\* no goroutine of executeOrderSafe exists
NewOrderState == [map |-> "nil", pendingOrders |-> {}, goroutines |-> <<>>]

\* the legacy bot before the first pair refresh: activePairs is empty and
\* pairMux is free
NewPairState == [activePairs |-> {}, pairMux |-> "free", pc |-> "idle", resp |-> {},
                 reader |-> "idle"]

\* NewScheduler: no selection cycle is running
NewScheduler == [fired |-> 0, running |-> <<>>]

\* NewRateLimiter: a channel of capacity requestsPerSecond, filled.  The field
\* lastReset is the time of the last refill; the refill ticker fires one second
\* after it.
NewRateLimiter(requestsPerSecond) ==
  [requests |-> requestsPerSecond, capacity |-> requestsPerSecond, lastReset |-> 0]

\* Engine.Run before its first select: the context is live, the ticker channel
\* (capacity 1) is empty;
\* logged: an error of a trading cycle has been logged
NewRun == [pc |-> "select", ctxDone |-> FALSE, tickerC |-> FALSE, logged |-> FALSE]

\* closes the Collector may store for a symbol in the runs of the reconciliation variant
PricesA(s) == IF s = "X" THEN {95, 100} ELSE {100}

\* faults a tick of the reconciliation variant may meet.  A statement that fails
\* inside a transaction either leaves the transaction usable ("updatePositionInTx")
\* or aborts it, so that Commit fails too ("updatePositionInTxAborted").
FaultsA == {"none", "getOrderStatus", "updateOrderInTx", "updatePositionInTx",
            "updatePositionInTxAborted", "exchange", "updatePosition",
            "createPosition", "createOrder"}

FaultsB == {"none", "getAllOpenPositions", "getPriceHistory", "exchange", "updatePosition"}

----------------------------------------------------------------------------
(* Helpers *)

RECURSIVE SumSeq(_)
SumSeq(s) == IF s = <<>> THEN 0 ELSE Head(s) + SumSeq(Tail(s))

RECURSIVE MaxSeq(_)
MaxSeq(s) == IF s = <<>> THEN 0
             ELSE LET m == MaxSeq(Tail(s)) IN IF Head(s) > m THEN Head(s) ELSE m

Opposite(side) == IF side = "buy" THEN "sell" ELSE "buy"

----------------------------------------------------------------------------
(* models.Position, models.Order *)

NewPosition(s, qty, price) ==
  [pair |-> s, side |-> "buy", qty |-> qty, entry |-> price, cur |-> price,
   upnl |-> 0, rpnl |-> 0, status |-> "open", closedAt |-> FALSE]

\* positionID 0 is a NULL position_id; filledAt/closedAt TRUE is a non-NULL timestamp
NewOrder(posID, s, exID, side, type, qty, price, filled, status, filledAt) ==
  [positionID |-> posID, pair |-> s, kucoinOrderID |-> exID, side |-> side,
   type |-> type, qty |-> qty, price |-> price, filled |-> filled,
   status |-> status, filledAt |-> filledAt]

----------------------------------------------------------------------------
(* Exchange client: the request each method sends *)

PlaceBuyOrder(s, qty, price) ==
  [sym |-> s, side |-> "buy", type |-> "limit", qty |-> qty, price |-> price]

PlaceSellOrder(s, qty, price) ==
  [sym |-> s, side |-> "sell", type |-> "limit", qty |-> qty, price |-> price]

PlaceMarketOrder(s, side, qty) ==
  [sym |-> s, side |-> side, type |-> "market", qty |-> qty, price |-> 0]

\* a placement as the observation records it: the request, the position it closes (0: none), the reason
Placement(req, posID, why) == [req |-> req, pos |-> posID, why |-> why]

----------------------------------------------------------------------------
(* Exchange: order status as the Engine reads it *)

\* an order resting on the exchange
NewExchOrder(req) ==
  [sym |-> req.sym, side |-> req.side, size |-> req.qty, price |-> req.price,
   deal |-> 0, active |-> TRUE, cancelExist |-> FALSE]

\* shared client GetOrder: the status it infers from isActive, dealSize, size, cancelExist
GetOrder(e) ==
  e @@
  [status |-> IF ~e.active /\ e.deal = e.size THEN "filled"
              ELSE IF ~e.active /\ e.cancelExist THEN "canceled"
              ELSE IF e.active THEN "active"
              ELSE "unknown"]

\* a mapping whose name for an order ended after a partial fill fits the status column
mapKucoinStatusToInternal_shortName(d) ==
  IF d.status \in {"active", "filled", "canceled"}
  THEN IF d.status = "active"
       THEN IF d.deal > 0 /\ d.deal < d.size THEN "partially_filled" ELSE "open"
       ELSE d.status
  ELSE IF d.active
       THEN IF d.deal > 0 /\ d.deal < d.size THEN "partially_filled" ELSE "open"
       ELSE IF d.deal > 0 /\ d.deal = d.size THEN "filled"
       ELSE IF d.cancelExist = FALSE /\ d.deal < d.size
            THEN IF d.deal > 0 THEN "canceled_partial" ELSE "canceled"
            ELSE "unknown"

mapKucoinStatusToInternal(d) ==
  IF d.status \in {"active", "filled", "canceled"}
  THEN IF d.status = "active"
       THEN IF d.deal > 0 /\ d.deal < d.size THEN "partially_filled" ELSE "open"
       ELSE d.status
  ELSE IF d.active
       THEN IF d.deal > 0 /\ d.deal < d.size THEN "partially_filled" ELSE "open"
       ELSE IF d.deal > 0 /\ d.deal = d.size THEN "filled"
       ELSE IF d.cancelExist = FALSE /\ d.deal < d.size
            THEN IF d.deal > 0 THEN "canceled_partially_filled" ELSE "canceled"
            ELSE "unknown"

\* models.OrderDetail, the fields synchronizeOrderStatuses reads (the fee is left out)
GetOrderStatus(e) ==
  [status |-> mapKucoinStatusToInternal(GetOrder(e)), dealSize |-> e.deal, price |-> e.price]

----------------------------------------------------------------------------
(* Repository *)

GetLatestPrice(h, s) == h[s][Len(h[s])]

GetPriceHistory(h, s) == h[s]

\* a query that returns the newest open row of the pair only
RECURSIVE GetOpenPositions_newest(_, _, _)
GetOpenPositions_newest(pos, s, i) ==
  IF i = 0 THEN <<>>
  ELSE IF pos[i].pair = s /\ pos[i].status \in {"open", "partial"}
       THEN <<i>>
       ELSE GetOpenPositions_newest(pos, s, i - 1)

\* ids of the pair's rows with status IN ('open','partial'), ORDER BY created_at DESC
RECURSIVE GetOpenPositions(_, _, _)
GetOpenPositions(pos, s, i) ==
  IF i = 0 THEN <<>>
  ELSE IF pos[i].pair = s /\ pos[i].status \in {"open", "partial"}
       THEN <<i>> \o GetOpenPositions(pos, s, i - 1)
       ELSE GetOpenPositions(pos, s, i - 1)

RECURSIVE GetAllOpenPositions(_, _)
GetAllOpenPositions(pos, i) ==
  IF i = 0 THEN <<>>
  ELSE IF pos[i].status \in {"open", "partial"}
       THEN <<i>> \o GetAllOpenPositions(pos, i - 1)
       ELSE GetAllOpenPositions(pos, i - 1)

\* UPDATE positions SET current_price, unrealized_pnl, realized_pnl, status, closed_at WHERE id
UpdatePosition(pos, id, p) ==
  [pos EXCEPT ![id] = [@ EXCEPT !.cur = p.cur, !.upnl = p.upnl, !.rpnl = p.rpnl,
                                !.status = p.status, !.closedAt = p.closedAt]]

----------------------------------------------------------------------------
(* RiskManager *)

\* a drawdown check that arms the deadline but lets the triggering tick go on
CheckPortfolioDrawdown_lateHalt(until, t, open) ==
  IF until # 0 /\ t < until THEN [halted |-> TRUE, until |-> until]
  ELSE LET total == SumSeq([i \in 1..Len(open) |-> open[i].upnl])
       IN IF total < 0 /\ total * 100 < -(CBPortfolioDrawdownPercent * TotalAccountBalance)
          THEN [halted |-> FALSE, until |-> t + CBTradingHaltDurationMinutes]
          ELSE [halted |-> FALSE, until |-> IF until # 0 /\ t > until THEN 0 ELSE until]

\* a drawdown check that still holds the halt at the deadline itself
CheckPortfolioDrawdown_holdAtDeadline(until, t, open) ==
  IF until # 0 /\ t <= until THEN [halted |-> TRUE, until |-> until]
  ELSE LET total == SumSeq([i \in 1..Len(open) |-> open[i].upnl])
       IN IF total < 0 /\ total * 100 < -(CBPortfolioDrawdownPercent * TotalAccountBalance)
          THEN [halted |-> TRUE, until |-> t + CBTradingHaltDurationMinutes]
          ELSE [halted |-> FALSE, until |-> IF until # 0 /\ t > until THEN 0 ELSE until]

\* result: whether trading is halted, and the new value of portfolioTradingHaltedUntil
CheckPortfolioDrawdown(until, t, open) ==
  IF until # 0 /\ t < until THEN [halted |-> TRUE, until |-> until]
  ELSE LET u1 == IF until # 0 /\ t > until THEN 0 ELSE until
           total == SumSeq([i \in 1..Len(open) |-> open[i].upnl])
       IN IF TotalAccountBalance <= 0 \/ CBPortfolioDrawdownPercent <= 0
          THEN [halted |-> FALSE, until |-> u1]
          ELSE IF total < 0 /\ total * 100 < -(CBPortfolioDrawdownPercent * TotalAccountBalance)
               THEN [halted |-> TRUE, until |-> t + CBTradingHaltDurationMinutes]
               ELSE [halted |-> FALSE, until |-> u1]

\* result: error, halted, and the new pairFlashCrashHaltedUntil
CheckFlashCrash(fh, s, t, cur, h, f) ==
  IF fh[s] # 0 /\ t < fh[s] THEN [err |-> FALSE, halted |-> TRUE, fh |-> fh]
  ELSE LET fh1 == IF fh[s] # 0 /\ t > fh[s] THEN [fh EXCEPT ![s] = 0] ELSE fh
           priceHistory == GetPriceHistory(h, s)
           maxPriceInWindow == MaxSeq(priceHistory)
       IN IF CBFlashCrashDropPercent <= 0 \/ CBFlashCrashWindowMinutes <= 0
          THEN [err |-> FALSE, halted |-> FALSE, fh |-> fh1]
          ELSE IF f = "getPriceHistory" THEN [err |-> TRUE, halted |-> FALSE, fh |-> fh1]
          ELSE IF Len(priceHistory) = 0 \/ maxPriceInWindow = 0
               THEN [err |-> FALSE, halted |-> FALSE, fh |-> fh1]
          ELSE IF (maxPriceInWindow - cur) * 100 >= CBFlashCrashDropPercent * maxPriceInWindow
               THEN [err |-> FALSE, halted |-> TRUE,
                     fh |-> [fh1 EXCEPT ![s] = t + CBTradingHaltDurationMinutes]]
               ELSE [err |-> FALSE, halted |-> FALSE, fh |-> fh1]

calculateTotalExposure(ps, cur) ==
  SumSeq([i \in 1..Len(ps) |-> IF ps[i].status = "open" THEN ps[i].qty * cur ELSE 0])

\* a gate that checks the number of positions only
CanTrade_countOnly(ps, cur) ==
  ~(Len(ps) >= MaxPositionsPerPair)

CanTrade(ps, cur) ==
  /\ ~(Len(ps) >= MaxPositionsPerPair)
  /\ ~(calculateTotalExposure(ps, cur) > MaxPositionsPerPair * DefaultPositionSize)

\* lossPercent > StopLossPercent, with lossPercent = (entry - cur) / entry
shouldStopLoss(p, cur) ==
  /\ p.status = "open"
  /\ IF p.side = "buy" THEN (p.entry - cur) * 100 > StopLossPercent * p.entry
                       ELSE (cur - p.entry) * 100 > StopLossPercent * p.entry

shouldTakeProfit(p, cur) ==
  /\ p.status = "open"
  /\ IF p.side = "buy" THEN (cur - p.entry) * 100 > TakeProfitPercent * p.entry
                       ELSE (p.entry - cur) * 100 > TakeProfitPercent * p.entry

----------------------------------------------------------------------------
(* Engine, circuit-breaker variant (position_sizing.go 965-1515) *)

\* in-memory effect of updatePositionPnL; the caller persists it with UpdatePosition
updatePositionPnL(p, cur) ==
  [p EXCEPT !.cur = cur,
            !.upnl = IF p.side = "buy" THEN (cur - p.entry) * p.qty
                                       ELSE (p.entry - cur) * p.qty]

\* the working state of one tick:
\*   pos, ord, strat : the tables;  fh : pairFlashCrashHaltedUntil
\*   placed  : orders accepted by the exchange during the tick, in order
\*   swept   : pairs whose SL/TP sweep ran;  fhalted : pairs CheckFlashCrash reported halted
\*   perr    : pairs whose processPair returned an error
\*   trig    : the SL/TP triggers that fired: position, reason, and the request sent to the exchange
RECURSIVE persistPnL(_, _, _, _)
persistPnL(w, ids, cur, f) ==
  IF ids = <<>> \/ f = "updatePosition" THEN w
  ELSE persistPnL([w EXCEPT !.pos = UpdatePosition(@, Head(ids),
                                       updatePositionPnL(w.pos[Head(ids)], cur))],
                  Tail(ids), cur, f)

closePosition(w, id, p, s, closePrice, reason, f) ==
  LET orderSide == Opposite(p.side)
      req == IF orderSide = "sell" THEN PlaceSellOrder(s, p.qty, closePrice)
                                   ELSE PlaceBuyOrder(s, p.qty, closePrice)
      w0 == [w EXCEPT !.trig = @ \cup {[id |-> id, why |-> reason, req |-> req]}]
  IN IF f \in {"exchange", "closeOrder"} THEN w0
     ELSE LET w1 == [w0 EXCEPT !.placed = Append(@, Placement(req, id, reason))]
              p1 == [p EXCEPT !.status = reason, !.closedAt = TRUE, !.upnl = 0,
                              !.rpnl = IF p.side = "buy" THEN (closePrice - p.entry) * p.qty
                                                         ELSE (p.entry - closePrice) * p.qty]
          IN IF f = "updatePosition" THEN w1
             ELSE LET w2 == [w1 EXCEPT !.pos = UpdatePosition(@, id, p1)]
                  IN IF f = "createOrder" THEN w2
                     ELSE [w2 EXCEPT !.ord = Append(@,
                             NewOrder(id, s, 1, orderSide, "market", p.qty, closePrice,
                                      p.qty, "filled", TRUE))]

executeBuyOrderB(w, s, price, f) ==
  LET quantity == DefaultPositionSize \div price
  IN IF f = "exchange" THEN w
     ELSE LET w1 == [w EXCEPT !.placed =
                        Append(@, Placement(PlaceBuyOrder(s, quantity, price), 0, "buy"))]
          IN IF f = "createPosition" THEN w1
             ELSE LET w2 == [w1 EXCEPT !.pos = Append(@, NewPosition(s, quantity, price))]
                  IN IF f = "createOrder" THEN w2
                     ELSE [w2 EXCEPT !.ord = Append(@,
                             NewOrder(0, s, 1, "buy", "limit", quantity, price, 0,
                                      "pending", FALSE))]

executeSellOrderB(w, id, p, s, price, f) ==
  IF f = "exchange" THEN w
  ELSE LET w1 == [w EXCEPT !.placed =
                     Append(@, Placement(PlaceSellOrder(s, p.qty, price), id, "sell"))]
           p1 == [p EXCEPT !.status = "closed", !.closedAt = TRUE, !.rpnl = p.upnl]
       IN IF f = "updatePosition" THEN w1
          ELSE LET w2 == [w1 EXCEPT !.pos = UpdatePosition(@, id, p1)]
               IN IF f = "createOrder" THEN w2
                  ELSE [w2 EXCEPT !.ord = Append(@,
                          NewOrder(id, s, 1, "sell", "limit", p.qty, price, 0,
                                   "pending", FALSE))]

\* first surviving position (in list order) with side buy and positive unrealized PnL; 0 if none
RECURSIVE firstProfitable(_, _)
firstProfitable(surv, k) ==
  IF k > Len(surv) THEN 0
  ELSE IF surv[k].p.side = "buy" /\ surv[k].p.upnl > 0 THEN k
       ELSE firstProfitable(surv, k + 1)

executeBasicStrategyB(w, s, signal, surv, cur, f) ==
  IF signal = "BUY"
  THEN IF Len(surv) < MaxPositionsPerPair THEN executeBuyOrderB(w, s, cur, f) ELSE w
  ELSE IF signal = "SELL"
       THEN LET k == firstProfitable(surv, 1)
            IN IF k = 0 THEN w ELSE executeSellOrderB(w, surv[k].id, surv[k].p, s, cur, f)
       ELSE w

\* GridStrategy.Execute computes the levels and logs the ones it would trade; it places nothing
gridExecute(w, s, signal, surv, cur) == w

\* an SL/TP loop that keeps the positions it closed among the surviving ones
RECURSIVE sweepB_keepClosed(_, _, _, _, _, _)
sweepB_keepClosed(w, ids, s, cur, f, surv) ==
  IF ids = <<>> THEN [w |-> w, surv |-> surv]
  ELSE LET id == Head(ids)
           p == updatePositionPnL(w.pos[id], cur)
           kept == Append(surv, [id |-> id, p |-> p])
       IN IF shouldStopLoss(p, cur)
          THEN sweepB_keepClosed(closePosition(w, id, p, s, cur, "closed_stoploss", f),
                                 Tail(ids), s, cur, f, kept)
          ELSE IF shouldTakeProfit(p, cur)
               THEN sweepB_keepClosed(closePosition(w, id, p, s, cur, "closed_takeprofit", f),
                                      Tail(ids), s, cur, f, kept)
               ELSE sweepB_keepClosed(w, Tail(ids), s, cur, f, kept)

\* the SL/TP loop of processPair over the in-memory copies, in list order
RECURSIVE sweepB(_, _, _, _, _, _)
sweepB(w, ids, s, cur, f, surv) ==
  IF ids = <<>> THEN [w |-> w, surv |-> surv]
  ELSE LET id == Head(ids)
           p == updatePositionPnL(w.pos[id], cur)
       IN IF shouldStopLoss(p, cur)
          THEN sweepB(closePosition(w, id, p, s, cur, "closed_stoploss", f),
                      Tail(ids), s, cur, f, surv)
          ELSE IF shouldTakeProfit(p, cur)
               THEN sweepB(closePosition(w, id, p, s, cur, "closed_takeprofit", f),
                           Tail(ids), s, cur, f, surv)
               ELSE sweepB(w, Tail(ids), s, cur, f, Append(surv, [id |-> id, p |-> p]))

processPairB(w, s, t, h, signal, f) ==
  LET w0 == IF w.strat[s] = "none" THEN [w EXCEPT !.strat[s] = "grid"] ELSE w
      cur == GetLatestPrice(h, s)
      fc == CheckFlashCrash(w0.fh, s, t, cur, h, f)
      w1 == [w0 EXCEPT !.fh = fc.fh]
  IN IF fc.err THEN [w1 EXCEPT !.perr = @ \cup {s}]
     ELSE IF fc.halted THEN [w1 EXCEPT !.fhalted = @ \cup {s}]
     ELSE LET ids == GetOpenPositions(w1.pos, s, Len(w1.pos))
              w2 == persistPnL(w1, ids, cur, f)
              sw == sweepB([w2 EXCEPT !.swept = @ \cup {s}], ids, s, cur, f, <<>>)
              ps == [k \in 1..Len(sw.surv) |-> sw.surv[k].p]
          IN IF ~CanTrade(ps, cur) THEN sw.w
             ELSE IF sw.w.strat[s] = "grid"
                  THEN gridExecute(sw.w, s, signal, sw.surv, cur)
                  ELSE executeBasicStrategyB(sw.w, s, signal, sw.surv, cur, f)

\* a pair loop that ends at the first pair the flash-crash breaker halts
RECURSIVE processPairsB_break(_, _, _, _, _, _)
processPairsB_break(w, pairs, t, h, sig, f) ==
  IF pairs = <<>> THEN w
  ELSE LET w1 == processPairB(w, Head(pairs), t, h, sig[Head(pairs)], f)
       IN IF Head(pairs) \in w1.fhalted THEN w1
          ELSE processPairsB_break(w1, Tail(pairs), t, h, sig, f)

RECURSIVE processPairsB(_, _, _, _, _, _)
processPairsB(w, pairs, t, h, sig, f) ==
  IF pairs = <<>> THEN w
  ELSE processPairsB(processPairB(w, Head(pairs), t, h, sig[Head(pairs)], f),
                     Tail(pairs), t, h, sig, f)

\* the PnL refresh of all globally open positions that precedes the drawdown check
RECURSIVE refreshAllB(_, _, _, _)
refreshAllB(pos, ids, h, f) ==
  IF ids = <<>> THEN pos
  ELSE LET id == Head(ids)
           p == updatePositionPnL(pos[id], GetLatestPrice(h, pos[id].pair))
       IN refreshAllB(IF f = "updatePosition" THEN pos ELSE UpdatePosition(pos, id, p),
                      Tail(ids), h, f)

\* result: the tick's final working state and whether the portfolio breaker halted it
processTradingCycleB(w, until, t, h, sig, f) ==
  IF f = "getAllOpenPositions" THEN [w |-> w, until |-> until, halted |-> FALSE, err |-> TRUE]
  ELSE LET ids == GetAllOpenPositions(w.pos, Len(w.pos))
           mem == [k \in 1..Len(ids) |->
                     updatePositionPnL(w.pos[ids[k]], GetLatestPrice(h, w.pos[ids[k]].pair))]
           w1 == [w EXCEPT !.pos = refreshAllB(w.pos, ids, h, f)]
           chk == CheckPortfolioDrawdown(until, t, mem)
       IN IF chk.halted
          THEN [w |-> w1, until |-> chk.until, halted |-> TRUE, err |-> FALSE]
          ELSE [w |-> processPairsB(w1, ActivePairs, t, h, sig, f),
                until |-> chk.until, halted |-> FALSE, err |-> FALSE]

----------------------------------------------------------------------------
(* Engine, reconciliation variant (position_sizing.go 296-963) *)

NonFinalStatuses == {"pending", "open", "partially_filled"}

\* ids of the orders with a non-final status, in insertion order
RECURSIVE GetOrdersByStatuses(_, _)
GetOrdersByStatuses(ord, i) ==
  IF i > Len(ord) THEN <<>>
  ELSE IF ord[i].status \in NonFinalStatuses
       THEN <<i>> \o GetOrdersByStatuses(ord, i + 1)
       ELSE GetOrdersByStatuses(ord, i + 1)

\* the local order after the comparison with the exchange's answer
syncLocalOrder(lo, d) ==
  LET lo1 == [lo EXCEPT !.status = d.status, !.filled = d.dealSize]
  IN IF /\ d.status \in {"filled", "canceled", "rejected"}
        /\ ~lo.filledAt
        /\ (d.status = "filled" \/ (d.status = "canceled" /\ lo1.filled > 0))
     THEN [lo1 EXCEPT !.filledAt = TRUE]
     ELSE lo1

\* a position block that takes every position not yet open, a closed one
\* included, as waiting for its first fill
syncPosition_reopen(position, lo1, d) ==
  IF d.status = "filled" /\ position.status # "open"
  THEN [p |-> [position EXCEPT !.status = "open", !.entry = d.price, !.qty = d.dealSize],
        needs |-> TRUE]
  ELSE [p |-> position, needs |-> FALSE]

\* a position block that opens the position on its first fill without taking
\* the filled size as its quantity
syncPosition_keepQuantity(position, lo1, d) ==
  IF d.status \in {"filled", "partially_filled"} /\ position.status = "open_pending"
  THEN [p |-> [position EXCEPT !.status = "open", !.entry = d.price], needs |-> TRUE]
  ELSE [p |-> position, needs |-> FALSE]

\* the position block of the loop body: the mutated position and positionNeedsUpdate
syncPosition(position, lo1, d) ==
  IF d.status = "filled"
  THEN IF position.status = "open_pending"
       THEN [p |-> [position EXCEPT !.status = "open", !.entry = d.price, !.qty = d.dealSize],
             needs |-> TRUE]
       ELSE IF position.status = "open" /\ lo1.side # position.side
            THEN IF d.dealSize >= position.qty
                 THEN [p |-> [position EXCEPT !.status = "closed", !.closedAt = TRUE],
                       needs |-> TRUE]
                 ELSE [p |-> [position EXCEPT !.qty = @ - d.dealSize], needs |-> TRUE]
            ELSE [p |-> position, needs |-> FALSE]
  ELSE IF d.status = "partially_filled"
       THEN IF position.status = "open_pending"
            THEN [p |-> [position EXCEPT !.status = "open", !.entry = d.price,
                                         !.qty = d.dealSize],
                  needs |-> TRUE]
            ELSE [p |-> position, needs |-> FALSE]
       ELSE IF position.status = "open_pending" /\ lo1.filled > 0
            THEN [p |-> [position EXCEPT !.status = "open", !.entry = d.price,
                                         !.qty = lo1.filled],
                  needs |-> TRUE]
            ELSE IF position.status = "open" /\ lo1.side # position.side
                 THEN [p |-> position, needs |-> TRUE]
                 ELSE [p |-> position, needs |-> FALSE]

\* GetOrderStatus returns an error (not found, or transient) for every order of
\* the tick, or for the oldest non-final order only
getOrderStatusFails(ord, o, f) ==
  \/ f = "getOrderStatus"
  \/ f = "getOrderStatusOldest" /\ o = Head(GetOrdersByStatuses(ord, 1))

\* one iteration of the loop of synchronizeOrderStatuses on local order o, all
\* reads being of the committed tables.  The result is the transaction it leaves
\* for the deferred function: the calls it made and whether the deferred
\* function commits (committed) and the commit succeeds.
\*   ordCall/posCall : UpdateOrderInTx / UpdatePositionInTx was called, with ordArg / posArg
\*   ordDone/posDone : the call succeeded
\* UpdateOrderInTx fails on the tick's fault and on a status the column cannot hold.
syncOne(pos, ord, ex, o, f) ==
  LET lo == ord[o]
      d == GetOrderStatus(ex[lo.kucoinOrderID])
      lo1 == syncLocalOrder(lo, d)
      needsUpdate == lo.status # d.status \/ lo.filled # d.dealSize
      none == [o |-> o, p |-> 0, polled |-> FALSE, ordCall |-> FALSE, ordDone |-> FALSE,
               ordArg |-> lo, posCall |-> FALSE, posDone |-> FALSE, posArg |-> lo,
               committed |-> FALSE]
  IN IF lo.kucoinOrderID = 0 \/ getOrderStatusFails(ord, o, f) THEN none
     ELSE IF needsUpdate /\ (f = "updateOrderInTx" \/ Len(lo1.status) > StatusColumnWidth)
          THEN [none EXCEPT !.polled = TRUE, !.ordCall = TRUE, !.ordArg = lo1]
          ELSE LET t1 == [none EXCEPT !.polled = TRUE, !.ordCall = needsUpdate,
                                      !.ordDone = needsUpdate, !.ordArg = lo1,
                                      !.committed = TRUE]
               IN IF /\ \/ d.status \in {"filled", "partially_filled"}
                        \/ (d.status = "canceled" /\ lo1.filled > 0)
                     /\ lo.positionID # 0
                  THEN LET sp == syncPosition(pos[lo.positionID], lo1, d)
                           t2 == [t1 EXCEPT !.p = lo.positionID]
                       IN IF ~sp.needs THEN t2
                          ELSE IF f = "updatePositionInTx"
                               THEN [t2 EXCEPT !.posCall = TRUE, !.posArg = sp.p]
                          ELSE IF f = "updatePositionInTxAborted"
                               THEN [t2 EXCEPT !.posCall = TRUE, !.posArg = sp.p,
                                               !.committed = FALSE]
                          ELSE [t2 EXCEPT !.posCall = TRUE, !.posDone = TRUE,
                                          !.posArg = sp.p]
                  ELSE t1

\* Commit of one transaction: its successful statements become durable
commitTx(db, tx) ==
  IF ~tx.committed THEN db
  ELSE [db EXCEPT !.ord = IF tx.ordDone THEN [@ EXCEPT ![tx.o] = tx.ordArg] ELSE @,
                  !.pos = IF tx.posDone THEN [@ EXCEPT ![tx.p] = tx.posArg] ELSE @]

\* the deferred functions run when synchronizeOrderStatuses returns, last first
RECURSIVE runDeferred(_, _)
runDeferred(db, txs) ==
  IF txs = <<>> THEN db
  ELSE commitTx(runDeferred(db, Tail(txs)), Head(txs))

\* the transactions still open when the loop of synchronizeOrderStatuses has
\* ended: each order whose status was read got a transaction from BeginTx, and
\* its Commit or Rollback is in a deferred function, which runs when
\* synchronizeOrderStatuses returns
openAtLoopEnd(txs) == {k \in 1..Len(txs) : txs[k].polled}

\* a reconciliation that returns at the first order whose query fails
synchronizeOrderStatuses_returnOnError(pos, ord, ex, f) ==
  LET ids == GetOrdersByStatuses(ord, 1)
      all == [k \in 1..Len(ids) |-> syncOne(pos, ord, ex, ids[k], f)]
      stopped(k) == \E j \in 1..k : getOrderStatusFails(ord, ids[j], f)
      txs == [k \in 1..Len(ids) |->
                IF stopped(k) THEN syncOne(pos, ord, ex, ids[k], "getOrderStatus")
                ELSE all[k]]
      db == runDeferred([pos |-> pos, ord |-> ord], txs)
  IN [pos |-> db.pos, ord |-> db.ord, txs |-> txs]

\* result: the tables after the call, and the transactions of the call in loop order
synchronizeOrderStatuses(pos, ord, ex, f) ==
  LET ids == GetOrdersByStatuses(ord, 1)
      txs == [k \in 1..Len(ids) |-> syncOne(pos, ord, ex, ids[k], f)]
      db == runDeferred([pos |-> pos, ord |-> ord], txs)
  IN [pos |-> db.pos, ord |-> db.ord, txs |-> txs]

\* a close that writes the position row before it asks the exchange
executeMarketCloseOrder_dbFirst(w, id, p, s, exitPrice, reason, f) ==
  LET closeSide == IF p.side = "sell" THEN "buy" ELSE "sell"
      req == PlaceMarketOrder(s, closeSide, p.qty)
      t == [id |-> id, why |-> reason, req |-> req, ok |-> FALSE]
      p1 == [p EXCEPT !.status = "closed", !.closedAt = TRUE, !.cur = exitPrice,
                      !.upnl = 0,
                      !.rpnl = IF p.side = "buy" THEN (exitPrice - p.entry) * p.qty
                                                 ELSE (p.entry - exitPrice) * p.qty]
  IN IF f = "updatePosition" THEN [w EXCEPT !.trig = @ \cup {t}]
     ELSE LET w1 == [w EXCEPT !.pos = UpdatePosition(@, id, p1)]
          IN IF f = "exchange" THEN [w1 EXCEPT !.trig = @ \cup {t}]
             ELSE LET w2 == [w1 EXCEPT !.placed = Append(@, Placement(req, id, reason))]
                  IN IF f = "createOrder" THEN [w2 EXCEPT !.trig = @ \cup {t}]
                     ELSE [w2 EXCEPT !.trig = @ \cup {[t EXCEPT !.ok = TRUE]},
                                     !.ord = Append(@,
                                        NewOrder(id, s, -1, closeSide, "market", p.qty,
                                                 exitPrice, p.qty, "filled", TRUE))]

\* the working state of one tick of this variant:
\*   pos, ord, strat : the tables;  ex : the exchange's resting orders
\*   placed : orders accepted by the exchange during the tick, in order
\*   trig   : the SL/TP triggers that fired: position, reason, request sent, and
\*            whether executeMarketCloseOrder returned without error
\*   swept  : pairs whose SL/TP sweep ran
executeMarketCloseOrder(w, id, p, s, exitPrice, reason, f) ==
  LET closeSide == IF p.side = "sell" THEN "buy" ELSE "sell"
      req == PlaceMarketOrder(s, closeSide, p.qty)
      t == [id |-> id, why |-> reason, req |-> req, ok |-> FALSE]
  IN IF f = "exchange" THEN [w EXCEPT !.trig = @ \cup {t}]
     ELSE LET w1 == [w EXCEPT !.placed = Append(@, Placement(req, id, reason))]
              p1 == [p EXCEPT !.status = "closed", !.closedAt = TRUE, !.cur = exitPrice,
                              !.upnl = 0,
                              !.rpnl = IF p.side = "buy" THEN (exitPrice - p.entry) * p.qty
                                                         ELSE (p.entry - exitPrice) * p.qty]
          IN IF f = "updatePosition" THEN [w1 EXCEPT !.trig = @ \cup {t}]
             ELSE LET w2 == [w1 EXCEPT !.pos = UpdatePosition(@, id, p1)]
                  IN IF f = "createOrder" THEN [w2 EXCEPT !.trig = @ \cup {t}]
                     ELSE [w2 EXCEPT !.trig = @ \cup {[t EXCEPT !.ok = TRUE]},
                                     !.ord = Append(@,
                                        NewOrder(id, s, -1, closeSide, "market", p.qty,
                                                 exitPrice, p.qty, "filled", TRUE))]

\* the reason of the SL/TP trigger that fires for the position at the price
\* under the pair's configuration; "" if none
sltpReasonOf(p, cur, config) ==
  IF p.status # "open" THEN ""
  ELSE IF config.StopLossPercent <= 0 \/ config.TakeProfitPercent <= 0 THEN ""
  ELSE IF p.side = "buy"
       THEN IF cur * 100 <= p.entry * (100 - config.StopLossPercent) THEN "stop-loss"
            ELSE IF cur * 100 >= p.entry * (100 + config.TakeProfitPercent) THEN "take-profit"
            ELSE ""
       ELSE IF p.side = "sell"
            THEN IF cur * 100 >= p.entry * (100 + config.StopLossPercent) THEN "stop-loss"
                 ELSE IF cur * 100 <= p.entry * (100 - config.TakeProfitPercent) THEN "take-profit"
                 ELSE ""
            ELSE ""

\* the same under the default configuration, which the pairs of the runs have
sltpReason(p, cur) ==
  sltpReasonOf(p, cur, [StopLossPercent |-> StopLossPercent,
                        TakeProfitPercent |-> TakeProfitPercent])

checkAndExecuteSLTP(w, id, p, s, cur, f) ==
  LET reason == sltpReason(p, cur)
  IN IF reason = "" THEN w ELSE executeMarketCloseOrder(w, id, p, s, cur, reason, f)

executeBuyOrderA(w, s, price, f) ==
  LET quantity == DefaultPositionSize \div price
      req == PlaceBuyOrder(s, quantity, price)
  IN IF f = "exchange" THEN w
     ELSE LET w1 == [w EXCEPT !.placed = Append(@, Placement(req, 0, "buy")),
                              !.ex = Append(@, NewExchOrder(req))]
          IN IF f = "createPosition" THEN w1
             ELSE LET w2 == [w1 EXCEPT !.pos = Append(@, NewPosition(s, quantity, price))]
                  IN IF f = "createOrder" THEN w2
                     ELSE [w2 EXCEPT !.ord = Append(@,
                             NewOrder(0, s, Len(w1.ex), "buy", "limit", quantity, price, 0,
                                      "pending", FALSE))]

executeSellOrderA(w, id, p, s, price, f) ==
  LET req == PlaceSellOrder(s, p.qty, price)
  IN IF f = "exchange" THEN w
     ELSE LET w1 == [w EXCEPT !.placed = Append(@, Placement(req, id, "sell")),
                              !.ex = Append(@, NewExchOrder(req))]
              p1 == [p EXCEPT !.status = "closed", !.closedAt = TRUE, !.rpnl = p.upnl]
          IN IF f = "updatePosition" THEN w1
             ELSE LET w2 == [w1 EXCEPT !.pos = UpdatePosition(@, id, p1)]
                  IN IF f = "createOrder" THEN w2
                     ELSE [w2 EXCEPT !.ord = Append(@,
                             NewOrder(id, s, Len(w1.ex), "sell", "limit", p.qty, price, 0,
                                      "pending", FALSE))]

\* first position of the list with side buy and positive unrealized PnL; 0 if none
RECURSIVE firstProfitableA(_, _, _)
firstProfitableA(pos, ids, k) ==
  IF k > Len(ids) THEN 0
  ELSE IF pos[ids[k]].side = "buy" /\ pos[ids[k]].upnl > 0 THEN ids[k]
       ELSE firstProfitableA(pos, ids, k + 1)

executeBasicStrategyA(w, s, signal, ids, cur, f) ==
  IF signal = "BUY"
  THEN IF Len(ids) < MaxPositionsPerPair THEN executeBuyOrderA(w, s, cur, f) ELSE w
  ELSE IF signal = "SELL"
       THEN LET id == firstProfitableA(w.pos, ids, 1)
            IN IF id = 0 THEN w ELSE executeSellOrderA(w, id, w.pos[id], s, cur, f)
       ELSE w

\* the loop of processPair over the open positions: PnL refresh, then the SL/TP check
RECURSIVE sweepA(_, _, _, _, _)
sweepA(w, ids, s, cur, f) ==
  IF ids = <<>> THEN w
  ELSE LET id == Head(ids)
           p == updatePositionPnL(w.pos[id], cur)
           w1 == IF f = "updatePosition" THEN w
                 ELSE [w EXCEPT !.pos = UpdatePosition(@, id, p)]
       IN sweepA(checkAndExecuteSLTP(w1, id, p, s, cur, f), Tail(ids), s, cur, f)

processPairA(w, s, h, signal, f) ==
  LET w0 == IF w.strat[s] = "none" THEN [w EXCEPT !.strat[s] = "grid"] ELSE w
      cur == GetLatestPrice(h, s)
      w1 == sweepA([w0 EXCEPT !.swept = @ \cup {s}],
                   GetOpenPositions(w0.pos, s, Len(w0.pos)), s, cur, f)
      ids == GetOpenPositions(w1.pos, s, Len(w1.pos))
      currentOpenPositions == [k \in 1..Len(ids) |-> w1.pos[ids[k]]]
  IN IF ~CanTrade(currentOpenPositions, cur) THEN w1
     ELSE IF w1.strat[s] = "grid" THEN w1
          ELSE executeBasicStrategyA(w1, s, signal, ids, cur, f)

RECURSIVE processPairsA(_, _, _, _, _)
processPairsA(w, pairs, h, sig, f) ==
  IF pairs = <<>> THEN w
  ELSE processPairsA(processPairA(w, Head(pairs), h, sig[Head(pairs)], f),
                     Tail(pairs), h, sig, f)

\* processTradingCycle of this variant: reconciliation first, then the pairs.
\* txs is the log of the reconciliation, each transaction with the rows it found
\* and the rows it left durable.
processTradingCycleA(w, h, sig, f) ==
  LET r == synchronizeOrderStatuses(w.pos, w.ord, w.ex, f)
      txs == [k \in 1..Len(r.txs) |->
                r.txs[k] @@ [ordBefore |-> w.ord[r.txs[k].o],
                             ordAfter |-> r.ord[r.txs[k].o],
                             posBefore |-> IF r.txs[k].p # 0 THEN w.pos[r.txs[k].p]
                                           ELSE w.ord[r.txs[k].o],
                             posAfter |-> IF r.txs[k].p # 0 THEN r.pos[r.txs[k].p]
                                          ELSE r.ord[r.txs[k].o]]]
  IN [w |-> processPairsA([w EXCEPT !.pos = r.pos, !.ord = r.ord], ActivePairsA, h, sig, f),
      txs |-> txs]

----------------------------------------------------------------------------
(* Specification of the circuit-breaker variant *)

NoLast == [kind |-> "none"]

BuyCount(sig) == Cardinality({s \in Symbols : sig[s] = "BUY"})

InitB ==
  /\ now = 1
  /\ hist = [s \in Symbols |-> <<100, 100>>]
  /\ positions = <<>>
  /\ orders = <<>>
  /\ strategy \in {[s \in Symbols |-> c] : c \in {"none", "basic"}}
  /\ portfolioTradingHaltedUntil = 0
  /\ pairFlashCrashHaltedUntil = [s \in Symbols |-> 0]
  /\ exch = <<>>
  /\ selected_pairs = ActiveRows(ActivePairs)
  /\ pubTx = NoTx
  /\ limiter = NewRateLimiter(1)
  /\ calls = <<>>
  /\ run = NewRun
  /\ orderState = NewOrderState
  /\ pairState = NewPairState
  /\ cron = NewScheduler
  /\ last = NoLast

\* time passes
AdvanceB ==
  /\ now < MaxTime
  /\ now' = now + 1
  /\ last' = NoLast
  /\ UNCHANGED <<aux, selected_pairs, pubTx, limiter, calls, run, hist, positions, orders, strategy, portfolioTradingHaltedUntil,
                 pairFlashCrashHaltedUntil, exch>>

\* the Collector stores the next close of a symbol; the window keeps the newest rows
PriceB ==
  \E s \in Symbols : \E p \in PricesOf(s) :
    /\ hist' = [hist EXCEPT ![s] =
                  IF Len(@) < CBFlashCrashWindowMinutes THEN Append(@, p)
                  ELSE Append(Tail(@), p)]
    /\ last' = NoLast
    /\ UNCHANGED <<aux, selected_pairs, pubTx, limiter, calls, run, now, positions, orders, strategy, portfolioTradingHaltedUntil,
                   pairFlashCrashHaltedUntil, exch>>

\* one tick of Run: processTradingCycle with the signals and the fault the tick meets.
\* The close of Y never moves, so no position of Y is ever in profit and a SELL
\* for Y does what a HOLD does: it is left out.
TickB ==
  \E sig \in [Symbols -> Signals] : \E f \in FaultsB :
    /\ sig["Y"] # "SELL"
    /\ Len(positions) + BuyCount(sig) <= MaxRowsB
    /\ \E r \in {processTradingCycleB(
                  [pos |-> positions, ord |-> orders, strat |-> strategy,
                   fh |-> pairFlashCrashHaltedUntil, placed |-> <<>>,
                   swept |-> {}, fhalted |-> {}, perr |-> {}, trig |-> {}],
                  portfolioTradingHaltedUntil, now, hist, sig, f)} :
          /\ positions' = r.w.pos
          /\ orders' = r.w.ord
          /\ strategy' = r.w.strat
          /\ pairFlashCrashHaltedUntil' = r.w.fh
          /\ portfolioTradingHaltedUntil' = r.until
          /\ last' = [kind |-> "tickB", t |-> now, err |-> r.err,
                      halted |-> r.halted, placed |-> r.w.placed,
                      swept |-> r.w.swept, fhalted |-> r.w.fhalted, perr |-> r.w.perr,
                      trig |-> r.w.trig]
    /\ UNCHANGED <<aux, selected_pairs, pubTx, limiter, calls, run, now, hist, exch>>

NextB == AdvanceB \/ PriceB \/ TickB

SpecB == InitB /\ [][NextB]_vars

----------------------------------------------------------------------------
(* The exchange client and its token bucket.  In this specification the clock
   `now` counts steps of 1/TicksPerSecond seconds.  calls holds the times of
   the grants of Wait inside the last second, the half-open interval
   (now - TicksPerSecond, now]. *)

TicksPerSecond == 2
MaxTimeL == 6
MaxRate == 2

\* refillBucket, one firing of its ticker: non-blocking sends until the channel
\* is full
refillBucket(rl, t) == [rl EXCEPT !.requests = rl.capacity, !.lastReset = t]

\* the refill ticker has a tick pending
RefillDue == now = limiter.lastReset + TicksPerSecond

InitL ==
  /\ now = 0
  /\ hist = [s \in Symbols |-> <<100>>]
  /\ positions = <<>>
  /\ orders = <<>>
  /\ strategy = [s \in Symbols |-> "basic"]
  /\ portfolioTradingHaltedUntil = 0
  /\ pairFlashCrashHaltedUntil = [s \in Symbols |-> 0]
  /\ exch = <<>>
  /\ selected_pairs = {}
  /\ pubTx = NoTx
  /\ limiter \in {NewRateLimiter(r) : r \in 1..MaxRate}
  /\ calls = <<>>
  /\ run = NewRun
  /\ orderState = NewOrderState
  /\ pairState = NewPairState
  /\ cron = NewScheduler
  /\ last = NoLast

\* time passes; the refill goroutine runs when its ticker fires
AdvanceL ==
  /\ now < MaxTimeL /\ ~RefillDue
  /\ now' = now + 1
  /\ calls' = SelectSeq(calls, LAMBDA t : t > now' - TicksPerSecond)
  /\ last' = NoLast
  /\ UNCHANGED <<aux, selected_pairs, pubTx, limiter, run, hist, positions, orders, strategy,
                 portfolioTradingHaltedUntil, pairFlashCrashHaltedUntil, exch>>

Refill ==
  /\ RefillDue
  /\ limiter' = refillBucket(limiter, now)
  /\ last' = NoLast
  /\ UNCHANGED <<aux, selected_pairs, pubTx, calls, run, now, hist, positions, orders, strategy,
                 portfolioTradingHaltedUntil, pairFlashCrashHaltedUntil, exch>>

\* Fetcher.FetchAllTickers: Wait takes one token from the channel, blocking
\* while it is empty; then Client.GetAllTickers sends the request
FetchAllTickers ==
  /\ limiter.requests > 0
  /\ limiter' = [limiter EXCEPT !.requests = @ - 1]
  /\ calls' = Append(calls, now)
  /\ last' = [kind |-> "http", endpoint |-> "allTickers", tokens |-> 1]
  /\ UNCHANGED <<aux, selected_pairs, pubTx, run, now, hist, positions, orders, strategy,
                 portfolioTradingHaltedUntil, pairFlashCrashHaltedUntil, exch>>

\* Client.PlaceOrder, called by the Engine's exchange wrapper: the request is
\* signed and sent; the limiter is not consulted
PlaceOrderRequest ==
  /\ last' = [kind |-> "http", endpoint |-> "orders", tokens |-> 0]
  /\ UNCHANGED <<aux, selected_pairs, pubTx, limiter, calls, run, now, hist, positions, orders,
                 strategy, portfolioTradingHaltedUntil, pairFlashCrashHaltedUntil, exch>>

\* Client.GetOrder, called by the reconciliation: likewise
GetOrderRequest ==
  /\ last' = [kind |-> "http", endpoint |-> "orderStatus", tokens |-> 0]
  /\ UNCHANGED <<aux, selected_pairs, pubTx, limiter, calls, run, now, hist, positions, orders,
                 strategy, portfolioTradingHaltedUntil, pairFlashCrashHaltedUntil, exch>>

NextL == AdvanceL \/ Refill \/ FetchAllTickers \/ PlaceOrderRequest \/ GetOrderRequest

SpecL == InitL /\ [][NextL]_vars

----------------------------------------------------------------------------
(* The legacy bot's executeOrderSafe.  pendingOrders is the set of the symbols
   the map holds with value true; the field map tells whether the map is nil
   or made, or the process has panicked.  A goroutine is a record of its symbol and
   its position: "go" (started, first statement not yet run), "executeOrder"
   (inside the call).  The variable is declared without a value; the code
   that would make the map is not in the file, so the start state has both
   the nil map and the made one. *)

MaxGoroutines == 3

\* the element of sequence q at index i removed
RemoveAt(q, i) == SubSeq(q, 1, i - 1) \o SubSeq(q, i + 1, Len(q))

\* the executions of symbol s in flight: goroutines inside executeOrder
InFlight(os, s) ==
  {i \in 1..Len(os.goroutines) :
     os.goroutines[i].symbol = s /\ os.goroutines[i].pc = "executeOrder"}

InitO ==
  /\ now = 1
  /\ hist = [s \in Symbols |-> <<100>>]
  /\ positions = <<>>
  /\ orders = <<>>
  /\ strategy = [s \in Symbols |-> "basic"]
  /\ portfolioTradingHaltedUntil = 0
  /\ pairFlashCrashHaltedUntil = [s \in Symbols |-> 0]
  /\ exch = <<>>
  /\ selected_pairs = {}
  /\ pubTx = NoTx
  /\ limiter = NewRateLimiter(1)
  /\ calls = <<>>
  /\ run = NewRun
  /\ orderState \in {[NewOrderState EXCEPT !.map = m] : m \in {"nil", "made"}}
  /\ pairState = NewPairState
  /\ cron = NewScheduler
  /\ last = NoLast

\* executeOrderSafe(symbol, ..): under orderMutex, the read of the map and the
\* go statement; the mutex is released when the function returns
executeOrderSafe ==
  /\ orderState.map # "panic"
  /\ \E s \in Symbols :
       LET pending == s \in orderState.pendingOrders
           live == {i \in 1..Len(orderState.goroutines) : orderState.goroutines[i].symbol = s}
       IN /\ ~pending => Len(orderState.goroutines) < MaxGoroutines
          /\ orderState' =
               IF pending THEN orderState
               ELSE [orderState EXCEPT
                       !.goroutines = Append(@, [symbol |-> s, pc |-> "go"])]
          /\ last' = [kind |-> "executeOrderSafe", symbol |-> s, started |-> ~pending,
                      live |-> live # {}, inFlight |-> InFlight(orderState, s) # {}]
  /\ UNCHANGED <<selected_pairs, pubTx, limiter, calls, run, pairState, cron, now, hist,
                 positions, orders, strategy, portfolioTradingHaltedUntil,
                 pairFlashCrashHaltedUntil, exch>>

\* the goroutine's first statement, pendingOrders[symbol] = true, outside the
\* mutex; the assignment to a nil map panics and ends the process
goSetPending ==
  /\ orderState.map # "panic"
  /\ \E i \in 1..Len(orderState.goroutines) :
       /\ orderState.goroutines[i].pc = "go"
       /\ orderState' =
            IF orderState.map = "nil"
            THEN [map |-> "panic", pendingOrders |-> {}, goroutines |-> <<>>]
            ELSE [map |-> "made",
                  pendingOrders |-> orderState.pendingOrders
                                      \cup {orderState.goroutines[i].symbol},
                  goroutines |-> [orderState.goroutines EXCEPT ![i].pc = "executeOrder"]]
       /\ last' = [kind |-> "go", symbol |-> orderState.goroutines[i].symbol]
  /\ UNCHANGED <<selected_pairs, pubTx, limiter, calls, run, pairState, cron, now, hist,
                 positions, orders, strategy, portfolioTradingHaltedUntil,
                 pairFlashCrashHaltedUntil, exch>>

\* executeOrder returns and the goroutine writes pendingOrders[symbol] = false
goClearPending ==
  /\ orderState.map # "panic"
  /\ \E i \in 1..Len(orderState.goroutines) :
       /\ orderState.goroutines[i].pc = "executeOrder"
       /\ orderState' =
            [map |-> "made",
             pendingOrders |-> orderState.pendingOrders \ {orderState.goroutines[i].symbol},
             goroutines |-> RemoveAt(orderState.goroutines, i)]
       /\ last' = [kind |-> "returned", symbol |-> orderState.goroutines[i].symbol]
  /\ UNCHANGED <<selected_pairs, pubTx, limiter, calls, run, pairState, cron, now, hist,
                 positions, orders, strategy, portfolioTradingHaltedUntil,
                 pairFlashCrashHaltedUntil, exch>>

NextO == executeOrderSafe \/ goSetPending \/ goClearPending

SpecO == InitO /\ [][NextO]_vars

----------------------------------------------------------------------------
(* GridStrategy.  Prices of this specification are in units of 1/100 so that
   the products and quotients of Execute and calculateGridLevels are exact.
   A level is a record of Price and Type; Quantity and IsActive are computed
   by the code and read nowhere. *)

\* the default configuration's number of levels
GridLevels == 10

\* trading_configs rows: the range unset (the default row) and a set range
GridConfigs ==
  { [GridLevels |-> GridLevels, PriceRangeMin |-> 0, PriceRangeMax |-> 0],
    [GridLevels |-> GridLevels, PriceRangeMin |-> 100000, PriceRangeMax |-> 110000] }

\* prices on and between the levels of the set range
PricesGr == {100000, 100500, 101000, 102000, 103000}

\* entry prices: on a level, inside the tolerance of level 100000, exactly
\* 0.1 percent off it, and on the next level
EntriesGr == {100000, 100099, 100100, 101000}

absDiff(a, b) == IF a >= b THEN a - b ELSE b - a

\* a check of the level that looks at no position
shouldPlaceOrder_ignorePositions(level, currentPrice, pos) == TRUE

\* shouldPlaceOrder: math.Abs(EntryPrice - level.Price) / level.Price < 0.001
\* for no position
shouldPlaceOrder(level, currentPrice, pos) ==
  \A k \in 1..Len(pos) : ~(absDiff(pos[k].entry, level.Price) * 1000 < level.Price)

calculateGridLevels(config, currentPrice) ==
  LET priceRange == config.PriceRangeMax - config.PriceRangeMin
      stepSize == priceRange \div config.GridLevels
  IN [i \in 1..config.GridLevels |->
        LET price == config.PriceRangeMin + (i - 1) * stepSize
        IN [Price |-> price, Type |-> IF price < currentPrice THEN "buy" ELSE "sell"]]

\* Execute: the levels for which it logs "Placing grid buy order" or "Placing
\* grid sell order", in the order of the loop
GridFired(config, pos, currentPrice) ==
  LET cfg == IF config.PriceRangeMin = 0 \/ config.PriceRangeMax = 0
             THEN [config EXCEPT !.PriceRangeMin = (currentPrice * 95) \div 100,
                                 !.PriceRangeMax = (currentPrice * 105) \div 100]
             ELSE config
      gridLevels == calculateGridLevels(cfg, currentPrice)
      fires(level) ==
        /\ shouldPlaceOrder(level, currentPrice, pos)
        /\ \/ level.Type = "buy" /\ currentPrice <= level.Price
           \/ level.Type = "sell" /\ currentPrice >= level.Price
  IN [levels |-> gridLevels, fired |-> SelectSeq(gridLevels, fires)]

InitGr ==
  /\ now = 1
  /\ hist = [s \in Symbols |-> <<100500>>]
  /\ positions \in {<<>>} \cup {<<NewPosition("X", 1, e)>> : e \in EntriesGr}
                   \cup {<<NewPosition("X", 1, 100099), NewPosition("X", 1, 102000)>>}
  /\ orders = <<>>
  /\ strategy = [s \in Symbols |-> "grid"]
  /\ portfolioTradingHaltedUntil = 0
  /\ pairFlashCrashHaltedUntil = [s \in Symbols |-> 0]
  /\ exch = <<>>
  /\ selected_pairs = ActiveRows(ActivePairsA)
  /\ pubTx = NoTx
  /\ limiter = NewRateLimiter(1)
  /\ calls = <<>>
  /\ run = NewRun
  /\ orderState = NewOrderState
  /\ pairState = NewPairState
  /\ cron = NewScheduler
  /\ last = NoLast

\* one tick of pair X under the grid strategy at a new price: processPair hands
\* the pair's open positions and the price to Execute, which logs the levels
\* it fires, places no order, writes no row and returns nil
GridTick ==
  \E p \in PricesGr : \E c \in GridConfigs :
    \E r \in {GridFired(c, positions, p)} :
      /\ hist' = [hist EXCEPT !["X"] = <<hist["X"][Len(hist["X"])], p>>]
      /\ last' = [kind |-> "grid", config |-> c, prev |-> hist["X"][Len(hist["X"])],
                  cur |-> p, levels |-> r.levels, fired |-> r.fired,
                  placed |-> gridExecute(<<>>, "X", "HOLD", positions, p)]
      /\ UNCHANGED <<aux, selected_pairs, pubTx, limiter, calls, run, now, positions, orders,
                     strategy, portfolioTradingHaltedUntil, pairFlashCrashHaltedUntil, exch>>

NextGr == GridTick

SpecGr == InitGr /\ [][NextGr]_vars

----------------------------------------------------------------------------
(* checkAndExecuteSLTP under the configurations a pair can have: each of the
   two percentages set or zero *)

ConfigsSL ==
  [StopLossPercent : {0, StopLossPercent}, TakeProfitPercent : {0, TakeProfitPercent}]

\* prices around the levels of an entry at 200: 190 and 210 are 5 percent
\* off, 194 and 206 are 3 percent off
PricesSL == {180, 189, 190, 191, 194, 195, 200, 205, 206, 207, 210, 211}

InitSL ==
  /\ now = 1
  /\ hist = [s \in Symbols |-> <<200>>]
  /\ positions \in {<<[NewPosition("X", 10, 200) EXCEPT !.side = sd, !.status = st]>> :
                      sd \in {"buy", "sell"}, st \in {"open", "closed"}}
  /\ orders = <<>>
  /\ strategy = [s \in Symbols |-> "basic"]
  /\ portfolioTradingHaltedUntil = 0
  /\ pairFlashCrashHaltedUntil = [s \in Symbols |-> 0]
  /\ exch = <<>>
  /\ selected_pairs = ActiveRows(ActivePairsA)
  /\ pubTx = NoTx
  /\ limiter = NewRateLimiter(1)
  /\ calls = <<>>
  /\ run = NewRun
  /\ orderState = NewOrderState
  /\ pairState = NewPairState
  /\ cron = NewScheduler
  /\ last = NoLast

\* the decision of checkAndExecuteSLTP for the position at a new price under a
\* configuration; the close it starts is executeMarketCloseOrder
decideSLTP ==
  \E c \in ConfigsSL : \E price \in PricesSL :
    /\ hist' = [hist EXCEPT !["X"] = <<price>>]
    /\ last' = [kind |-> "sltp", config |-> c, price |-> price,
                reason |-> sltpReasonOf(positions[1], price, c)]
    /\ UNCHANGED <<aux, selected_pairs, pubTx, limiter, calls, run, now, positions, orders,
                   strategy, portfolioTradingHaltedUntil, pairFlashCrashHaltedUntil, exch>>

NextSL == decideSLTP

SpecSL == InitSL /\ [][NextSL]_vars

----------------------------------------------------------------------------
(* Engine.Run: the loop around the ticks of the circuit-breaker variant.  The
   select statement chooses among the cases that can proceed; when the context
   is done and the ticker channel holds a tick, either case may be chosen. *)

\* a loop that returns the error of the trading cycle
RunAfterTick_returnOnError(r, err) ==
  IF err THEN [r EXCEPT !.pc = "exited", !.logged = TRUE] ELSE r

\* the case <-ticker.C after processTradingCycle returned: the error is logged
\* and the loop goes back to the select
RunAfterTick(r, err) ==
  IF err THEN [r EXCEPT !.logged = TRUE] ELSE r

\* the runtime's ticker sends a tick; the channel holds one tick at most
TickerFires ==
  /\ run.pc = "select" /\ ~run.tickerC
  /\ run' = [run EXCEPT !.tickerC = TRUE]
  /\ last' = NoLast
  /\ UNCHANGED <<aux, selected_pairs, pubTx, limiter, calls, now, hist, positions, orders, strategy,
                 portfolioTradingHaltedUntil, pairFlashCrashHaltedUntil, exch>>

\* main receives SIGINT or SIGTERM and cancels the context
Shutdown ==
  /\ ~run.ctxDone
  /\ run' = [run EXCEPT !.ctxDone = TRUE]
  /\ last' = NoLast
  /\ UNCHANGED <<aux, selected_pairs, pubTx, limiter, calls, now, hist, positions, orders, strategy,
                 portfolioTradingHaltedUntil, pairFlashCrashHaltedUntil, exch>>

\* the select takes the case <-ctx.Done(): Run returns
RunDone ==
  /\ run.pc = "select" /\ run.ctxDone
  /\ run' = [run EXCEPT !.pc = "exited"]
  /\ last' = NoLast
  /\ UNCHANGED <<aux, selected_pairs, pubTx, limiter, calls, now, hist, positions, orders, strategy,
                 portfolioTradingHaltedUntil, pairFlashCrashHaltedUntil, exch>>

\* the select takes the case <-ticker.C: one trading cycle, as TickB.  Under a
\* cancelled context the first query of the cycle fails.
RunTick ==
  /\ run.pc = "select" /\ run.tickerC
  /\ \E sig \in [Symbols -> Signals] : \E f \in FaultsB :
       /\ sig["Y"] # "SELL"
       /\ Len(positions) + BuyCount(sig) <= MaxRowsB
       /\ run.ctxDone => f = "getAllOpenPositions" /\ sig = [s \in Symbols |-> "HOLD"]
       /\ \E r \in {processTradingCycleB(
                     [pos |-> positions, ord |-> orders, strat |-> strategy,
                      fh |-> pairFlashCrashHaltedUntil, placed |-> <<>>,
                      swept |-> {}, fhalted |-> {}, perr |-> {}, trig |-> {}],
                     portfolioTradingHaltedUntil, now, hist, sig, f)} :
             /\ positions' = r.w.pos
             /\ orders' = r.w.ord
             /\ strategy' = r.w.strat
             /\ pairFlashCrashHaltedUntil' = r.w.fh
             /\ portfolioTradingHaltedUntil' = r.until
             /\ run' = RunAfterTick([run EXCEPT !.tickerC = FALSE], r.err)
             /\ last' = [kind |-> "tickB", t |-> now, err |-> r.err,
                         halted |-> r.halted, placed |-> r.w.placed,
                         swept |-> r.w.swept, fhalted |-> r.w.fhalted, perr |-> r.w.perr,
                         trig |-> r.w.trig, fault |-> f, signal |-> sig,
                         afterCancel |-> run.ctxDone, loggedBefore |-> run.logged]
  /\ UNCHANGED <<aux, selected_pairs, pubTx, limiter, calls, now, hist, exch>>

NextR == AdvanceB \/ PriceB \/ TickerFires \/ Shutdown \/ RunDone \/ RunTick

SpecR == InitB /\ [][NextR]_vars

----------------------------------------------------------------------------
(* Specification of the reconciliation variant *)

\* the rows TestEngine_synchronizeOrderStatuses starts from, in the model's units:
\*   "opening": a pending buy order linked to a position waiting for its first fill
\*   "closing": a pending sell order linked to an open long position
FixtureQty == DefaultPositionSize \div 100

FixturePositions(fx) ==
  IF fx = "opening"
  THEN << [NewPosition("X", 0, 0) EXCEPT !.status = "open_pending"] >>
  ELSE IF fx = "closing" THEN << NewPosition("X", FixtureQty, 100) >>
  ELSE <<>>

FixtureOrders(fx) ==
  IF fx = "opening"
  THEN << NewOrder(1, "X", 1, "buy", "limit", FixtureQty, 100, 0, "pending", FALSE) >>
  ELSE IF fx = "closing"
       THEN << NewOrder(1, "X", 1, "sell", "limit", FixtureQty, 100, 0, "pending", FALSE) >>
       ELSE <<>>

FixtureExch(fx) ==
  IF fx = "opening" THEN << NewExchOrder(PlaceBuyOrder("X", FixtureQty, 100)) >>
  ELSE IF fx = "closing" THEN << NewExchOrder(PlaceSellOrder("X", FixtureQty, 100)) >>
  ELSE <<>>

InitA ==
  /\ now = 1
  /\ hist = [s \in Symbols |-> <<100>>]
  /\ \E fx \in {"empty", "opening", "closing"} :
       /\ positions = FixturePositions(fx)
       /\ orders = FixtureOrders(fx)
       /\ exch = FixtureExch(fx)
  /\ strategy = [s \in Symbols |-> "basic"]
  /\ portfolioTradingHaltedUntil = 0
  /\ pairFlashCrashHaltedUntil = [s \in Symbols |-> 0]
  /\ selected_pairs = ActiveRows(ActivePairsA)
  /\ pubTx = NoTx
  /\ limiter = NewRateLimiter(1)
  /\ calls = <<>>
  /\ run = NewRun
  /\ orderState = NewOrderState
  /\ pairState = NewPairState
  /\ cron = NewScheduler
  /\ last = NoLast

\* the Collector stores the next close of an active symbol
PriceA ==
  \E s \in {ActivePairsA[k] : k \in 1..Len(ActivePairsA)} : \E p \in PricesA(s) :
    /\ hist' = [hist EXCEPT ![s] = <<p>>]
    /\ last' = NoLast
    /\ UNCHANGED <<aux, selected_pairs, pubTx, limiter, calls, run, now, positions, orders, strategy, portfolioTradingHaltedUntil,
                   pairFlashCrashHaltedUntil, exch>>

\* the exchange matches a resting order, partly or fully
ExchFillA ==
  \E k \in 1..Len(exch) : \E full \in BOOLEAN :
    /\ exch[k].active
    /\ full \/ exch[k].deal = 0
    /\ exch' = [exch EXCEPT ![k] =
                  IF full THEN [@ EXCEPT !.deal = exch[k].size, !.active = FALSE]
                  ELSE [@ EXCEPT !.deal = exch[k].size \div 2]]
    /\ last' = NoLast
    /\ UNCHANGED <<aux, selected_pairs, pubTx, limiter, calls, run, now, hist, positions, orders, strategy, portfolioTradingHaltedUntil,
                   pairFlashCrashHaltedUntil>>

\* the exchange ends a resting order before it is fully matched, with or
\* without a cancellation record (cancelExist)
ExchEndA ==
  \E k \in 1..Len(exch) : \E c \in BOOLEAN :
    /\ exch[k].active
    /\ exch' = [exch EXCEPT ![k] = [@ EXCEPT !.active = FALSE, !.cancelExist = c]]
    /\ last' = NoLast
    /\ UNCHANGED <<aux, selected_pairs, pubTx, limiter, calls, run, now, hist, positions, orders, strategy, portfolioTradingHaltedUntil,
                   pairFlashCrashHaltedUntil>>

\* one tick of Run: processTradingCycle with the signals and the fault the tick meets
TickA ==
  \E sig \in [Symbols -> Signals] : \E f \in FaultsA :
    /\ sig["Y"] = "HOLD"
    /\ sig["X"] # "HOLD" => Len(exch) < MaxExchA
    /\ \E r \in {processTradingCycleA(
                  [pos |-> positions, ord |-> orders, strat |-> strategy, ex |-> exch,
                   placed |-> <<>>, swept |-> {}, trig |-> {}],
                  hist, sig, f)} :
          /\ positions' = r.w.pos
          /\ orders' = r.w.ord
          /\ strategy' = r.w.strat
          /\ exch' = r.w.ex
          /\ last' = [kind |-> "tickA", txs |-> r.txs,
                      placed |-> r.w.placed, swept |-> r.w.swept, trig |-> r.w.trig]
    /\ UNCHANGED <<aux, selected_pairs, pubTx, limiter, calls, run, now, hist, portfolioTradingHaltedUntil, pairFlashCrashHaltedUntil>>

NextA == PriceA \/ ExchFillA \/ ExchEndA \/ TickA

SpecA == InitA /\ [][NextA]_vars

\* The reconciliation variant against an exchange whose answers are not trusted:
\* GetOrderStatus parses dealSize from the response as it comes, so the answer
\* may carry a dealSize above the size of the order.
ExchOverReportA ==
  \E k \in 1..Len(exch) : \E ended \in BOOLEAN :
    /\ exch[k].active
    /\ exch[k].deal <= exch[k].size
    /\ exch' = [exch EXCEPT ![k] = [@ EXCEPT !.deal = exch[k].size + 1,
                                             !.active = ~ended]]
    /\ last' = NoLast
    /\ UNCHANGED <<aux, selected_pairs, pubTx, limiter, calls, run, now, hist, positions, orders, strategy, portfolioTradingHaltedUntil,
                   pairFlashCrashHaltedUntil>>

NextAU == NextA \/ ExchOverReportA

SpecAU == InitA /\ [][NextAU]_vars

----------------------------------------------------------------------------
(* Strategy runs of the reconciliation variant: the basic strategy opens and
   closes positions, and the SL/TP sweep closes the one bought before the run *)

\* closes of X in these runs: for a position bought at 225 or 228, 225 -> 228 is
\* a profit below the take-profit and 228 -> 225 a loss above the stop-loss, so
\* that only the strategy closes it; both divide DefaultPositionSize
PricesS == {225, 228}

FaultsS == {"none", "exchange", "updatePosition", "createOrder"}

\* the table positions the Engine finds at start: empty, or one open position
\* of X bought at 221, which 228 takes beyond the take-profit and 225 does not
StartPositionsS ==
  { <<>>, << NewPosition("X", DefaultPositionSize \div 221, 221) >> }

InitS ==
  /\ now = 1
  /\ hist = [s \in Symbols |-> <<225>>]
  /\ positions \in StartPositionsS
  /\ orders = <<>>
  /\ exch = <<>>
  /\ strategy = [s \in Symbols |-> "basic"]
  /\ portfolioTradingHaltedUntil = 0
  /\ pairFlashCrashHaltedUntil = [s \in Symbols |-> 0]
  /\ selected_pairs = ActiveRows(ActivePairsA)
  /\ pubTx = NoTx
  /\ limiter = NewRateLimiter(1)
  /\ calls = <<>>
  /\ run = NewRun
  /\ orderState = NewOrderState
  /\ pairState = NewPairState
  /\ cron = NewScheduler
  /\ last = NoLast

PriceS ==
  \E p \in PricesS :
    /\ hist' = [hist EXCEPT !["X"] = <<p>>]
    /\ last' = NoLast
    /\ UNCHANGED <<aux, selected_pairs, pubTx, limiter, calls, run, now, positions, orders, strategy, portfolioTradingHaltedUntil,
                   pairFlashCrashHaltedUntil, exch>>

\* one tick of Run, as TickA; the observation also keeps the signals, the fault
\* and the table positions the tick started from
TickS ==
  \E sig \in [Symbols -> Signals] : \E f \in FaultsS :
    /\ sig["Y"] = "HOLD"
    /\ sig["X"] # "HOLD" => Len(exch) < MaxExchS
    /\ \E r \in {processTradingCycleA(
                  [pos |-> positions, ord |-> orders, strat |-> strategy, ex |-> exch,
                   placed |-> <<>>, swept |-> {}, trig |-> {}],
                  hist, sig, f)} :
          /\ positions' = r.w.pos
          /\ orders' = r.w.ord
          /\ strategy' = r.w.strat
          /\ exch' = r.w.ex
          /\ last' = [kind |-> "tickA", txs |-> r.txs,
                      placed |-> r.w.placed, swept |-> r.w.swept, trig |-> r.w.trig,
                      sig |-> sig, fault |-> f, pre |-> positions]
    /\ UNCHANGED <<aux, selected_pairs, pubTx, limiter, calls, run, now, hist, portfolioTradingHaltedUntil, pairFlashCrashHaltedUntil>>

\* the exchange matches a resting order in full
ExchDoneS ==
  \E k \in 1..Len(exch) :
    /\ exch[k].active
    /\ exch' = [exch EXCEPT ![k] = [@ EXCEPT !.deal = exch[k].size, !.active = FALSE]]
    /\ last' = NoLast
    /\ UNCHANGED <<aux, selected_pairs, pubTx, limiter, calls, run, now, hist, positions, orders, strategy, portfolioTradingHaltedUntil,
                   pairFlashCrashHaltedUntil>>

NextS == PriceS \/ ExchDoneS \/ TickS

SpecS == InitS /\ [][NextS]_vars

----------------------------------------------------------------------------
(* Signal runs: the ticks of the strategy runs with the signal computed by
   Generator.GenerateSignal from what CalculateTechnicalIndicators returns.
   Weights, thresholds and strengths are in hundredths. *)

rsiWeight == 30
macdWeight == 25
emaTrendWeight == 25
volumeConfirmWeight == 20
buyThreshold == 30
sellThreshold == 0 - 30

\* what CalculateTechnicalIndicators returns: an error (GetPriceHistory fails,
\* fewer points than the longest period plus 5, or an indicator that is NaN
\* throughout), or indicators, of which the signal reads, per factor, whether
\* it is bullish (1), bearish (-1) or neither, and whether the volume is above
\* volumeConfirmationRatio times its average
IndicatorResults ==
  { [err |-> e, rsi |-> 0, macd |-> 0, ema |-> 0, volume |-> FALSE]
      : e \in {"priceHistory", "notEnoughData", "allNaN"} }
  \cup { [err |-> "none", rsi |-> a, macd |-> b, ema |-> c, volume |-> v]
           : a \in {0 - 1, 0, 1}, b \in {0 - 1, 0, 1}, c \in {0 - 1, 0, 1}, v \in BOOLEAN }

\* a generator that scores the zero-valued indicators of a failed computation
\* as an oversold market
GenerateSignal_scoreOnError(ind) ==
  IF ind.err # "none" THEN [Action |-> "BUY", Strength |-> 50]
  ELSE [Action |-> "HOLD", Strength |-> 50]

GenerateSignal(ind) ==
  IF ind.err # "none" THEN [Action |-> "HOLD", Strength |-> 10]
  ELSE LET base == ind.rsi * rsiWeight + ind.macd * macdWeight + ind.ema * emaTrendWeight
           signalScore == IF ~ind.volume THEN base
                          ELSE IF base > 5 THEN base + volumeConfirmWeight
                          ELSE IF base < 0 - 5 THEN base - volumeConfirmWeight
                          ELSE base
           min(a, b) == IF a < b THEN a ELSE b
       IN IF signalScore > buyThreshold
          THEN [Action |-> "BUY",
                Strength |-> min(50 + (signalScore - buyThreshold) \div 2, 100)]
          ELSE IF signalScore < sellThreshold
          THEN [Action |-> "SELL",
                Strength |-> min(50 + ((0 - signalScore) - (0 - sellThreshold)) \div 2, 100)]
          ELSE [Action |-> "HOLD", Strength |-> 50]

\* the signals a tick can get for X, with whether the indicators failed
SignalsI ==
  { [failed |-> ind.err # "none", signal |-> GenerateSignal(ind)] : ind \in IndicatorResults }

FaultsI == {"none", "exchange"}

\* one tick of Run, as TickS, with the signal of X from the generator; the
\* indicators of Y cannot be computed
TickI ==
  \E g \in SignalsI : \E f \in FaultsI :
    \E gy \in {GenerateSignal([err |-> "notEnoughData", rsi |-> 0, macd |-> 0, ema |-> 0,
                                volume |-> FALSE])} :
      /\ g.signal.Action # "HOLD" => Len(exch) < MaxExchS
      /\ \E r \in {processTradingCycleA(
                    [pos |-> positions, ord |-> orders, strat |-> strategy, ex |-> exch,
                     placed |-> <<>>, swept |-> {}, trig |-> {}],
                    hist, [s \in Symbols |-> IF s = "X" THEN g.signal.Action ELSE gy.Action],
                    f)} :
            /\ positions' = r.w.pos
            /\ orders' = r.w.ord
            /\ strategy' = r.w.strat
            /\ exch' = r.w.ex
            /\ last' = [kind |-> "tickI", txs |-> r.txs,
                        placed |-> r.w.placed, swept |-> r.w.swept, trig |-> r.w.trig,
                        failed |-> g.failed, signal |-> g.signal, fault |-> f]
      /\ UNCHANGED <<aux, selected_pairs, pubTx, limiter, calls, run, now, hist,
                     portfolioTradingHaltedUntil, pairFlashCrashHaltedUntil>>

NextI == PriceS \/ ExchDoneS \/ TickI

SpecI == InitS /\ [][NextI]_vars

----------------------------------------------------------------------------
(* Polling runs of the reconciliation variant: both pairs of rows of
   TestEngine_synchronizeOrderStatuses are in the tables, the close of X stays
   at 100 and no signal comes, so that only the reconciliation acts *)

FaultsP == {"none", "getOrderStatus", "getOrderStatusOldest"}

\* the opening order is pending and unmatched, or, as in the case "Order
\* partially filled", open with a fifth filled while the exchange has matched half
InitP ==
  /\ now = 1
  /\ hist = [s \in Symbols |-> <<100>>]
  /\ positions = FixturePositions("opening") \o FixturePositions("closing")
  /\ \E stale \in BOOLEAN :
       /\ orders = << NewOrder(1, "X", 1, "buy", "limit", FixtureQty, 100,
                               IF stale THEN FixtureQty \div 5 ELSE 0,
                               IF stale THEN "open" ELSE "pending", FALSE),
                      NewOrder(2, "X", 2, "sell", "limit", FixtureQty, 100, 0,
                               "pending", FALSE) >>
       /\ exch = << [FixtureExch("opening")[1] EXCEPT
                      !.deal = IF stale THEN FixtureQty \div 2 ELSE 0] >>
                 \o FixtureExch("closing")
  /\ strategy = [s \in Symbols |-> "basic"]
  /\ portfolioTradingHaltedUntil = 0
  /\ pairFlashCrashHaltedUntil = [s \in Symbols |-> 0]
  /\ selected_pairs = ActiveRows(ActivePairsA)
  /\ pubTx = NoTx
  /\ limiter = NewRateLimiter(1)
  /\ calls = <<>>
  /\ run = NewRun
  /\ orderState = NewOrderState
  /\ pairState = NewPairState
  /\ cron = NewScheduler
  /\ last = NoLast

\* one tick of Run without a signal; the observation also keeps the fault and
\* the tables the tick started from
TickP ==
  \E f \in FaultsP :
    \E r \in {processTradingCycleA(
                [pos |-> positions, ord |-> orders, strat |-> strategy, ex |-> exch,
                 placed |-> <<>>, swept |-> {}, trig |-> {}],
                hist, [s \in Symbols |-> "HOLD"], f)} :
      /\ positions' = r.w.pos
      /\ orders' = r.w.ord
      /\ strategy' = r.w.strat
      /\ exch' = r.w.ex
      /\ last' = [kind |-> "tickA", txs |-> r.txs,
                  placed |-> r.w.placed, swept |-> r.w.swept, trig |-> r.w.trig,
                  fault |-> f, pre |-> positions, preOrders |-> orders]
      /\ UNCHANGED <<aux, selected_pairs, pubTx, limiter, calls, run, now, hist, portfolioTradingHaltedUntil, pairFlashCrashHaltedUntil>>

NextP == ExchFillA \/ ExchEndA \/ TickP

SpecP == InitP /\ [][NextP]_vars

----------------------------------------------------------------------------
(* Strategy runs of the circuit-breaker variant: the basic strategy trades X
   over closes that let the SL/TP sweep and the strategy act in one tick *)

\* closes of X in these runs: 225 -> 232 is beyond the take-profit, 225 -> 228
\* and 228 -> 232 are profits below it, and no fall reaches a stop-loss or a
\* circuit breaker.  A buy at 232 gets the whole units of DefaultPositionSize / 232.
PricesG == {225, 228, 232}

\* closeOrder: the exchange refuses the closing orders of the tick and accepts
\* the others
FaultsG == {"none", "exchange", "closeOrder"}

\* the table positions the Engine finds at start: empty, or one open position
\* of X bought at 225 while DEFAULT_POSITION_SIZE_USDT was twice as large
StartPositionsG ==
  { <<>>, << NewPosition("X", (2 * DefaultPositionSize) \div 225, 225) >> }

InitG ==
  /\ now = 1
  /\ hist = [s \in Symbols |-> IF s = "X" THEN <<225, 225>> ELSE <<100, 100>>]
  /\ positions \in StartPositionsG
  /\ orders = <<>>
  /\ strategy = [s \in Symbols |-> "basic"]
  /\ portfolioTradingHaltedUntil = 0
  /\ pairFlashCrashHaltedUntil = [s \in Symbols |-> 0]
  /\ exch = <<>>
  /\ selected_pairs = ActiveRows(ActivePairs)
  /\ pubTx = NoTx
  /\ limiter = NewRateLimiter(1)
  /\ calls = <<>>
  /\ run = NewRun
  /\ orderState = NewOrderState
  /\ pairState = NewPairState
  /\ cron = NewScheduler
  /\ last = NoLast

PriceG ==
  \E p \in PricesG :
    /\ hist' = [hist EXCEPT !["X"] = Append(Tail(@), p)]
    /\ last' = NoLast
    /\ UNCHANGED <<aux, selected_pairs, pubTx, limiter, calls, run, now, positions, orders, strategy, portfolioTradingHaltedUntil,
                   pairFlashCrashHaltedUntil, exch>>

\* one tick of Run, as TickB; the observation also keeps the signals, the fault
\* and the table positions the tick started from
TickG ==
  \E sig \in [Symbols -> Signals] : \E f \in FaultsG :
    /\ sig["Y"] = "HOLD"
    /\ sig["X"] = "BUY" => Len(positions) < MaxRowsG
    /\ \E r \in {processTradingCycleB(
                  [pos |-> positions, ord |-> orders, strat |-> strategy,
                   fh |-> pairFlashCrashHaltedUntil, placed |-> <<>>,
                   swept |-> {}, fhalted |-> {}, perr |-> {}, trig |-> {}],
                  portfolioTradingHaltedUntil, now, hist, sig, f)} :
          /\ positions' = r.w.pos
          /\ orders' = r.w.ord
          /\ strategy' = r.w.strat
          /\ pairFlashCrashHaltedUntil' = r.w.fh
          /\ portfolioTradingHaltedUntil' = r.until
          /\ last' = [kind |-> "tickB", t |-> now, err |-> r.err,
                      halted |-> r.halted, placed |-> r.w.placed,
                      swept |-> r.w.swept, fhalted |-> r.w.fhalted, perr |-> r.w.perr,
                      trig |-> r.w.trig, sig |-> sig, fault |-> f, pre |-> positions]
    /\ UNCHANGED <<aux, selected_pairs, pubTx, limiter, calls, run, now, hist, exch>>

NextG == PriceG \/ TickG

SpecG == InitG /\ [][NextG]_vars

----------------------------------------------------------------------------
(* Pair Selector: selection and publication *)

RiskLevels == {"low", "medium", "high"}

\* trading_pairs: the symbols are 1..MaxTradingPairs; AnalyzePairs returns the
\* analyses of the pairs that pass the filters, best score first, and the runs
\* rank the symbols by their number
AnalysesOf(S, risk) ==
  LET RECURSIVE from(_)
      from(n) == IF n > MaxTradingPairs THEN <<>>
                 ELSE IF n \in S THEN <<[Symbol |-> n, RiskLevel |-> risk[n]]>> \o from(n + 1)
                 ELSE from(n + 1)
  IN from(1)

\* the first n elements of a slice, or all of it
FirstN(sq, n) == SubSeq(sq, 1, IF n < Len(sq) THEN n ELSE Len(sq))

\* a fill loop without the check for pairs already selected
RECURSIVE fillRemaining_noFoundCheck(_, _, _)
fillRemaining_noFoundCheck(selected, analyses, maxPairs) ==
  IF analyses = <<>> \/ Len(selected) >= maxPairs THEN selected
  ELSE fillRemaining_noFoundCheck(Append(selected, Head(analyses)), Tail(analyses), maxPairs)

\* the loop that fills the remaining slots with the best pairs not yet selected
RECURSIVE fillRemaining(_, _, _)
fillRemaining(selected, analyses, maxPairs) ==
  IF analyses = <<>> \/ Len(selected) >= maxPairs THEN selected
  ELSE IF \E k \in 1..Len(selected) : selected[k].Symbol = Head(analyses).Symbol
       THEN fillRemaining(selected, Tail(analyses), maxPairs)
       ELSE fillRemaining(Append(selected, Head(analyses)), Tail(analyses), maxPairs)

\* a selection that takes the risk buckets and leaves the remaining slots empty
SelectTopPairs_bucketsOnly(analyses, maxPairs) ==
  IF Len(analyses) <= maxPairs THEN analyses
  ELSE LET ofRisk(r) == SelectSeq(analyses, LAMBDA a : a.RiskLevel = r)
           lowCount == maxPairs \div 3
           mediumCount == maxPairs \div 3
           highCount == maxPairs - lowCount - mediumCount
       IN FirstN(ofRisk("low"), lowCount) \o FirstN(ofRisk("medium"), mediumCount)
            \o FirstN(ofRisk("high"), highCount)

SelectTopPairs(analyses, maxPairs) ==
  IF Len(analyses) <= maxPairs THEN analyses
  ELSE LET ofRisk(r) == SelectSeq(analyses, LAMBDA a : a.RiskLevel = r)
           lowCount == maxPairs \div 3
           mediumCount == maxPairs \div 3
           highCount == maxPairs - lowCount - mediumCount
           selected == FirstN(ofRisk("low"), lowCount)
                         \o FirstN(ofRisk("medium"), mediumCount)
                         \o FirstN(ofRisk("high"), highCount)
           remaining == maxPairs - Len(selected)
       IN IF remaining > 0 THEN fillRemaining(selected, analyses, maxPairs) ELSE selected

\* faults a selection cycle may meet: AnalyzePairs fails, the INSERT is rejected
\* (ON CONFLICT (symbol) finds no unique constraint on the table, or any other
\* statement error), or Commit fails
FaultsSel == {"none", "analyzePairs", "insert", "commit"}

\* result: the rows after the call and whether it returned an error.  The
\* deferred Rollback undoes the statements of a call that does not commit.
UpdateSelectedPairs(rows, analyses, f) ==
  LET deactivated == {[r EXCEPT !.status = "inactive"] : r \in rows}
      symbols == {analyses[k].Symbol : k \in 1..Len(analyses)}
      upserted == {r \in deactivated : r.symbol \notin symbols}
                    \cup {[symbol |-> x, status |-> "active"] : x \in symbols}
  IN IF Len(analyses) > 0 /\ (f = "insert" \/ Cardinality(symbols) # Len(analyses))
     THEN [rows |-> rows, err |-> TRUE]
     ELSE IF f = "commit" THEN [rows |-> rows, err |-> TRUE]
     ELSE [rows |-> IF Len(analyses) > 0 THEN upserted ELSE deactivated, err |-> FALSE]

\* the table the Selector finds: empty, or rows of earlier selections
StartRowsSel ==
  { {}, {[symbol |-> 1, status |-> "active"], [symbol |-> MaxTradingPairs, status |-> "active"]} }

InitSel ==
  /\ now = 1
  /\ hist = [s \in Symbols |-> <<100>>]
  /\ positions = <<>>
  /\ orders = <<>>
  /\ strategy = [s \in Symbols |-> "basic"]
  /\ portfolioTradingHaltedUntil = 0
  /\ pairFlashCrashHaltedUntil = [s \in Symbols |-> 0]
  /\ exch = <<>>
  /\ selected_pairs \in StartRowsSel
  /\ pubTx = NoTx
  /\ limiter = NewRateLimiter(1)
  /\ calls = <<>>
  /\ run = NewRun
  /\ orderState = NewOrderState
  /\ pairState = NewPairState
  /\ cron = NewScheduler
  /\ last = NoLast

\* what AnalyzePairs and SelectTopPairs can hand to the publication: for any
\* set of analysed pairs with any risk levels, the number of analyses and the
\* selected analyses, of which the table keeps the symbol
SelectionOutcomes ==
  UNION { { [analyses |-> Cardinality(S),
             selectedPairs |->
               LET sel == SelectTopPairs(AnalysesOf(S, risk), MaxActivesPairs)
               IN [k \in 1..Len(sel) |-> [Symbol |-> sel[k].Symbol]]]
            : risk \in [S -> RiskLevels] }
          : S \in SUBSET (1..MaxTradingPairs) }

\* one run of Scheduler.selectPairs; the observation keeps the number of
\* analyses, the symbols selected, the symbols that were active before and are
\* not selected, and the outcome
selectPairs ==
  \E c \in SelectionOutcomes : \E f \in FaultsSel :
    \E symbols \in {{c.selectedPairs[k].Symbol : k \in 1..Len(c.selectedPairs)}} :
      \E r \in {IF f = "analyzePairs" THEN [rows |-> selected_pairs, err |-> TRUE]
                 ELSE UpdateSelectedPairs(selected_pairs, c.selectedPairs, f)} :
        /\ selected_pairs' = r.rows
        /\ last' = [kind |-> "selectPairs", analyses |-> c.analyses,
                    selected |-> symbols, published |-> ~r.err,
                    dropped |-> {x.symbol : x \in {y \in selected_pairs :
                                                     y.status = "active"}} \ symbols]
        /\ UNCHANGED <<aux, now, hist, positions, orders, strategy, pubTx, limiter, calls, run,
                       portfolioTradingHaltedUntil, pairFlashCrashHaltedUntil, exch>>

NextSel == selectPairs

SpecSel == InitSel /\ [][NextSel]_vars

----------------------------------------------------------------------------
(* SelectTopPairs on its own: any ranked list of candidates with distinct
   symbols and any risk levels, any number of slots from 0 to the number of
   pairs *)

selectTop ==
  \E S \in SUBSET (1..MaxTradingPairs) : \E risk \in [S -> RiskLevels] :
    \E maxPairs \in 0..MaxTradingPairs :
      \E sel \in {SelectTopPairs(AnalysesOf(S, risk), maxPairs)} :
        /\ last' = [kind |-> "SelectTopPairs", candidates |-> Cardinality(S),
                    risks |-> {risk[x] : x \in S}, maxPairs |-> maxPairs,
                    selected |-> [k \in 1..Len(sel) |-> sel[k].Symbol]]
        /\ UNCHANGED <<aux, now, hist, positions, orders, strategy, selected_pairs, pubTx, limiter,
                       calls, run, portfolioTradingHaltedUntil, pairFlashCrashHaltedUntil, exch>>

NextTop == selectTop

SpecTop == InitSel /\ [][NextTop]_vars

----------------------------------------------------------------------------
(* A selection cycle from the measurements of the pairs: AnalyzePairs filters
   the trading pairs, SelectTopPairs selects, UpdateSelectedPairs publishes.
   Volatility is in percent; the pairs are ranked by their number. *)

MinHistoryPoints == 20
MinVolumeUSDT == 1000000
MinVolatility == 3
MaxVolatility == 8
WatchlistSize == 20

\* what the price history of a pair can measure to: on and next to every
\* threshold, or GetPriceHistory fails
Measures ==
  { [points |-> MinHistoryPoints, volume |-> MinVolumeUSDT, volatility |-> MinVolatility,
     err |-> FALSE, risk |-> "low"] }
  \cup { [points |-> MinHistoryPoints, volume |-> MinVolumeUSDT, volatility |-> MaxVolatility,
          err |-> FALSE, risk |-> "high"],
         [points |-> MinHistoryPoints - 1, volume |-> MinVolumeUSDT, volatility |-> MinVolatility,
          err |-> FALSE, risk |-> "low"],
         [points |-> MinHistoryPoints, volume |-> MinVolumeUSDT - 1, volatility |-> MinVolatility,
          err |-> FALSE, risk |-> "low"],
         [points |-> MinHistoryPoints, volume |-> MinVolumeUSDT, volatility |-> MinVolatility - 1,
          err |-> FALSE, risk |-> "low"],
         [points |-> MinHistoryPoints, volume |-> MinVolumeUSDT, volatility |-> MaxVolatility + 1,
          err |-> FALSE, risk |-> "low"],
         [points |-> 0, volume |-> 0, volatility |-> 0, err |-> TRUE, risk |-> "low"] }

\* an analysis that checks the volatility against the upper limit only
analyzeSinglePair_noVolatilityFloor(symbol, m) ==
  IF m.err THEN [err |-> TRUE, nil |-> TRUE]
  ELSE IF m.points < MinHistoryPoints THEN [err |-> FALSE, nil |-> TRUE]
  ELSE IF m.volume < MinVolumeUSDT THEN [err |-> FALSE, nil |-> TRUE]
  ELSE IF m.volatility > MaxVolatility THEN [err |-> FALSE, nil |-> TRUE]
  ELSE [err |-> FALSE, nil |-> FALSE, analysis |-> [Symbol |-> symbol, RiskLevel |-> m.risk]]

\* (analysis, err): nil without error for a pair that is skipped.  Failures of
\* the correlation analysis and of UpdateTradingPairMetrics are logged only.
analyzeSinglePair(symbol, m) ==
  IF m.err THEN [err |-> TRUE, nil |-> TRUE]
  ELSE IF m.points < MinHistoryPoints THEN [err |-> FALSE, nil |-> TRUE]
  ELSE IF m.volume < MinVolumeUSDT THEN [err |-> FALSE, nil |-> TRUE]
  ELSE IF m.volatility < MinVolatility \/ m.volatility > MaxVolatility
       THEN [err |-> FALSE, nil |-> TRUE]
  ELSE [err |-> FALSE, nil |-> FALSE, analysis |-> [Symbol |-> symbol, RiskLevel |-> m.risk]]

\* the loop of AnalyzePairs over the pairs from..MaxTradingPairs, then the cut
\* to the watchlist size
RECURSIVE analyzeFrom(_, _)
analyzeFrom(from, measure) ==
  IF from > MaxTradingPairs THEN <<>>
  ELSE LET r == analyzeSinglePair(from, measure[from])
       IN IF r.err \/ r.nil THEN analyzeFrom(from + 1, measure)
          ELSE <<r.analysis>> \o analyzeFrom(from + 1, measure)

AnalyzePairs(measure) == FirstN(analyzeFrom(1, measure), WatchlistSize)

\* the pairs the criteria drop, read off the measurements
DroppedBy(measure) ==
  {x \in 1..MaxTradingPairs :
     /\ ~measure[x].err
     /\ \/ measure[x].volume < MinVolumeUSDT
        \/ measure[x].volatility < MinVolatility
        \/ measure[x].volatility > MaxVolatility
        \/ measure[x].points < MinHistoryPoints}

\* the pairs that meet every criterion and whose history could be read
PassingOf(measure) ==
  {x \in 1..MaxTradingPairs :
     /\ ~measure[x].err
     /\ measure[x].volume >= MinVolumeUSDT
     /\ measure[x].volatility >= MinVolatility /\ measure[x].volatility <= MaxVolatility
     /\ measure[x].points >= MinHistoryPoints}

\* what a cycle can compute: per assignment of measurements, the pairs
\* dropped, the pairs passing, the analyses and the selection
AnalysisOutcomes ==
  { LET analyses == AnalyzePairs(measure)
        sel == SelectTopPairs(analyses, MaxActivesPairs)
    IN [dropped |-> DroppedBy(measure), passing |-> PassingOf(measure),
        failed |-> {x \in 1..MaxTradingPairs : measure[x].err},
        analysed |-> {analyses[k].Symbol : k \in 1..Len(analyses)},
        selectedPairs |-> [k \in 1..Len(sel) |-> [Symbol |-> sel[k].Symbol]]]
    : measure \in [1..MaxTradingPairs -> Measures] }

\* one run of Scheduler.selectPairs on measured pairs
selectMeasuredPairs ==
  \E c \in AnalysisOutcomes : \E f \in {"none", "insert"} :
    \E r \in {UpdateSelectedPairs(selected_pairs, c.selectedPairs, f)} :
      /\ selected_pairs' = r.rows
      /\ last' = [kind |-> "selectMeasuredPairs", dropped |-> c.dropped, passing |-> c.passing,
                  failed |-> c.failed, analysed |-> c.analysed, published |-> ~r.err,
                  activeBefore |-> ActiveSymbols(selected_pairs)]
      /\ UNCHANGED <<aux, now, hist, positions, orders, strategy, pubTx, limiter, calls, run,
                     portfolioTradingHaltedUntil, pairFlashCrashHaltedUntil, exch>>

NextAn == selectMeasuredPairs

SpecAn == InitSel /\ [][NextAn]_vars

----------------------------------------------------------------------------
(* The publication as the Engine sees it: UpdateSelectedPairs runs statement
   by statement in one transaction (BeginTx with the default isolation level,
   READ COMMITTED) while the Engine reads the active set from another
   connection.  A statement of another session sees the committed rows only. *)

\* a read that sees the uncommitted rows of the open transaction
GetActiveSelectedPairs_dirty(committed, t) ==
  ActiveSymbols(IF t.pc = "none" THEN committed ELSE t.rows)

\* the SELECT of the Engine: the symbols of the committed rows with status active
GetActiveSelectedPairs(committed, t) == ActiveSymbols(committed)

\* faults of one statement of the publication
FaultsPub == {"none", "exec", "commit"}

\* the next statement of UpdateSelectedPairs in transaction t, under fault f:
\* the transaction after it and the committed rows after it.  An error
\* returns, and the deferred Rollback drops the uncommitted rows.
UpdateSelectedPairsStep(t, committed, f) ==
  LET symbols == {t.analyses[k].Symbol : k \in 1..Len(t.analyses)}
      rolledBack == [tx |-> NoTx, committed |-> committed, outcome |-> "rollback"]
  IN CASE t.pc = "begun" ->
            IF f = "exec" THEN rolledBack
            ELSE [tx |-> [t EXCEPT !.pc = IF Len(t.analyses) > 0 THEN "deactivated" ELSE "inserted",
                                   !.rows = {[r EXCEPT !.status = "inactive"] : r \in t.rows}],
                  committed |-> committed, outcome |-> "exec"]
       [] t.pc = "deactivated" ->
            IF f = "exec" THEN rolledBack
            ELSE [tx |-> [t EXCEPT !.pc = "inserted",
                                   !.rows = {r \in t.rows : r.symbol \notin symbols}
                                              \cup {[symbol |-> x, status |-> "active"] : x \in symbols}],
                  committed |-> committed, outcome |-> "exec"]
       [] t.pc = "inserted" ->
            IF f = "commit" THEN rolledBack
            ELSE [tx |-> NoTx, committed |-> t.rows, outcome |-> "commit"]

\* selectPairs reaches UpdateSelectedPairs: BeginTx
beginPublication ==
  /\ pubTx = NoTx
  /\ \E c \in SelectionOutcomes :
       /\ pubTx' = [pc |-> "begun", rows |-> selected_pairs, analyses |-> c.selectedPairs,
                    prev |-> ActiveSymbols(selected_pairs),
                    next |-> {c.selectedPairs[k].Symbol : k \in 1..Len(c.selectedPairs)}]
       /\ last' = [kind |-> "BeginTx"]
  /\ UNCHANGED <<aux, now, hist, positions, orders, strategy, selected_pairs, limiter, calls, run,
                 portfolioTradingHaltedUntil, pairFlashCrashHaltedUntil, exch>>

\* the next statement of the open transaction
publicationStep ==
  /\ pubTx # NoTx
  /\ \E f \in FaultsPub :
       \E r \in {UpdateSelectedPairsStep(pubTx, selected_pairs, f)} :
         /\ pubTx' = r.tx
         /\ selected_pairs' = r.committed
         /\ last' = [kind |-> r.outcome, prev |-> pubTx.prev, next |-> pubTx.next]
  /\ UNCHANGED <<aux, now, hist, positions, orders, strategy, limiter, calls, run,
                 portfolioTradingHaltedUntil, pairFlashCrashHaltedUntil, exch>>

\* processTradingCycle reads the active set, at any moment of the publication
engineRead ==
  /\ last' = [kind |-> "read", pairs |-> GetActiveSelectedPairs(selected_pairs, pubTx),
              open |-> pubTx # NoTx,
              pc |-> pubTx.pc,
              prev |-> IF pubTx = NoTx THEN ActiveSymbols(selected_pairs) ELSE pubTx.prev,
              next |-> IF pubTx = NoTx THEN ActiveSymbols(selected_pairs) ELSE pubTx.next]
  /\ UNCHANGED <<aux, now, hist, positions, orders, strategy, selected_pairs, pubTx, limiter, calls,
                 run, portfolioTradingHaltedUntil, pairFlashCrashHaltedUntil, exch>>

NextPub == beginPublication \/ publicationStep \/ engineRead

SpecPub == InitSel /\ [][NextPub]_vars

----------------------------------------------------------------------------
(* Properties of the circuit breakers *)

\* the orders of the last tick that were placed for symbol s
PlacedFor(s) == {k \in 1..Len(last.placed) : last.placed[k].req.sym = s}

PortfolioHaltActiveAt(until, t) == until # 0 /\ t < until

FlashHaltActiveAt(fh, s, t) == fh[s] # 0 /\ t < fh[s]

\* the drawdown condition, from the open rows and the latest prices
DrawdownExceeded(pos, h) ==
  LET open == {i \in 1..Len(pos) : pos[i].status \in {"open", "partial"}}
      pnl(i) == IF pos[i].side = "buy"
                THEN (GetLatestPrice(h, pos[i].pair) - pos[i].entry) * pos[i].qty
                ELSE (pos[i].entry - GetLatestPrice(h, pos[i].pair)) * pos[i].qty
      RECURSIVE Sum(_)
      Sum(S) == IF S = {} THEN 0 ELSE LET x == CHOOSE y \in S : TRUE IN pnl(x) + Sum(S \ {x})
  IN Sum(open) * 100 < -(CBPortfolioDrawdownPercent * TotalAccountBalance)

\* C1: a tick during which the portfolio halt is active (the tick that sets
\* the halt included) places no order on the exchange, for any pair.
C1_NoPlacementUnderPortfolioHalt ==
  (last.kind = "tickB" /\ PortfolioHaltActiveAt(portfolioTradingHaltedUntil, last.t))
    => last.placed = <<>>

\* a tick set the halt while a position was open, and placed nothing
C1_Witness ==
  /\ last.kind = "tickB"
  /\ last.halted
  /\ portfolioTradingHaltedUntil = last.t + CBTradingHaltDurationMinutes
  /\ \E i \in 1..Len(positions) : positions[i].status = "open" /\ positions[i].upnl < 0
  /\ last.placed = <<>>

\* C2: a tick that finds the drawdown beyond the limit sets the deadline to
\* now + halt duration and skips the pairs; a tick that starts before the
\* deadline is short-circuited and leaves the deadline alone; a tick that
\* starts at or after the deadline with no excessive drawdown goes on to the pairs.
C2_HaltUntilDeadline ==
  [][(last'.kind = "tickB" /\ ~last'.err) =>
       LET active == PortfolioHaltActiveAt(portfolioTradingHaltedUntil, now)
           dd == DrawdownExceeded(positions, hist)
           ran == last'.swept \cup last'.fhalted \cup last'.perr
       IN /\ active => /\ last'.halted /\ ran = {}
                       /\ portfolioTradingHaltedUntil' = portfolioTradingHaltedUntil
          /\ (~active /\ dd) => /\ last'.halted /\ ran = {}
                                /\ portfolioTradingHaltedUntil' = now + CBTradingHaltDurationMinutes
          /\ (~active /\ ~dd) => /\ ~last'.halted /\ ran = Symbols
                                 /\ ~PortfolioHaltActiveAt(portfolioTradingHaltedUntil', now)
    ]_vars

\* a tick at the deadline of an earlier halt went on to process the pairs
C2_Witness ==
  /\ last.kind = "tickB"
  /\ portfolioTradingHaltedUntil # 0 /\ last.t >= portfolioTradingHaltedUntil
  /\ ~last.halted
  /\ last.swept # {}

\* C3: while the flash-crash halt holds for a symbol, a tick places no order for
\* it; every other pair of a tick that got to the pairs is processed: its
\* sweep ran unless its own breaker halted it or its own processing failed.
C3_FlashHaltIsPerSymbol ==
  last.kind = "tickB" =>
    \A s \in Symbols :
      FlashHaltActiveAt(pairFlashCrashHaltedUntil, s, last.t) =>
        /\ PlacedFor(s) = {}
        /\ (~last.halted /\ ~last.err) =>
             \A o \in Symbols \ {s} :
               (o \notin last.fhalted /\ o \notin last.perr) => o \in last.swept

\* X was halted by its flash-crash breaker in a tick that bought Y
C3_Witness ==
  /\ last.kind = "tickB"
  /\ "X" \in last.fhalted
  /\ FlashHaltActiveAt(pairFlashCrashHaltedUntil, "X", last.t)
  /\ \E k \in PlacedFor("Y") : last.placed[k].req.side = "buy"
  /\ PlacedFor("X") = {}

----------------------------------------------------------------------------
(* Stop-loss and take-profit in the circuit-breaker variant *)

\* the price is at or below the stop-loss price entry * (1 - StopLossPercent) of a long position
AtOrBelowStopLoss(p, cur) == cur * 100 <= p.entry * (100 - StopLossPercent)

\* C7: a price exactly at the stop-loss threshold triggers the stop-loss: after
\* a tick swept a pair, every long position of the pair that is still open
\* with the price at or below its stop-loss price had its stop-loss fired in that tick.
C7_StopLossInclusive ==
  last.kind = "tickB" =>
    \A i \in 1..Len(positions) :
      ( /\ positions[i].pair \in last.swept
        /\ positions[i].status = "open" /\ positions[i].side = "buy"
        /\ AtOrBelowStopLoss(positions[i], GetLatestPrice(hist, positions[i].pair)) )
      => \E x \in last.trig : x.id = i /\ x.why = "closed_stoploss"

\* C8: the order a firing SL/TP trigger sends to the exchange is a market
\* order on the opposite side for the full quantity of the position.
C8_CloseByMarketOrder ==
  last.kind = "tickB" =>
    \A x \in last.trig :
      /\ x.req.type = "market"
      /\ x.req.side = Opposite(positions[x.id].side)
      /\ x.req.qty = positions[x.id].qty

----------------------------------------------------------------------------
(* Properties of reconciliation and of the SL/TP close in the reconciliation variant *)

OrderStatuses == {"pending", "open", "partially_filled", "filled", "canceled", "rejected"}

TerminalOrderStatuses == {"filled", "canceled", "rejected"}

ClosedStatuses == {"closed", "closed_stoploss", "closed_takeprofit"}

\* the transactions of the last tick's reconciliation
Txs == {last.txs[k] : k \in 1..Len(last.txs)}

\* C4: in a reconciliation action that changes the Order row and the linked
\* Position row, the two updates are durable together or not at all, whichever
\* step of the action fails.
C4_ReconciliationAtomic ==
  last.kind = "tickA" =>
    \A tx \in Txs :
      ( /\ tx.ordCall /\ tx.posCall
        /\ tx.ordArg # tx.ordBefore /\ tx.posArg # tx.posBefore )
      => ((tx.ordAfter = tx.ordArg) <=> (tx.posAfter = tx.posArg))

\* C5: an SL/TP close marks the Position closed and records the closing Order
\* together: after the tick, the position a trigger fired for is closed exactly
\* if its closing order row exists.
C5_CloseAtomic ==
  last.kind = "tickA" =>
    \A x \in last.trig :
      (positions[x.id].status \in ClosedStatuses)
        <=> (\E o \in 1..Len(orders) :
               orders[o].positionID = x.id /\ orders[o].type = "market")

\* C6: once the exchange has ended an order, one reconciliation tick whose
\* calls all succeed leaves the local Order in a terminal status with the
\* exchange's filled quantity, and a linked position that the order opens
\* holds the filled quantity.
C6_ReconciliationConverges ==
  last.kind = "tickA" =>
    \A tx \in Txs :
      ( /\ tx.polled /\ tx.committed
        /\ tx.ordCall => tx.ordDone
        /\ tx.posCall => tx.posDone
        /\ ~exch[tx.ordAfter.kucoinOrderID].active )
      => /\ tx.ordAfter.status \in TerminalOrderStatuses
         /\ tx.ordAfter.filled = exch[tx.ordAfter.kucoinOrderID].deal
         /\ ( /\ tx.p # 0
              /\ tx.ordAfter.side = tx.posAfter.side
              /\ tx.ordAfter.filled > 0 )
            => /\ tx.posAfter.status = "open"
               /\ tx.posAfter.qty = tx.ordAfter.filled

\* C9: after a successful SL/TP close the position has the status of its
\* reason, realized PnL (exit - entry) * quantity, no unrealized PnL and
\* closed_at set, and its closing order is filled.
C9_CloseRecord ==
  last.kind = "tickA" =>
    \A x \in last.trig :
      x.ok =>
        LET p == positions[x.id]
            exit == GetLatestPrice(hist, p.pair)
        IN /\ p.status = IF x.why = "stop-loss" THEN "closed_stoploss"
                         ELSE "closed_takeprofit"
           /\ p.rpnl = (exit - p.entry) * p.qty
           /\ p.closedAt
           /\ \E o \in 1..Len(orders) :
                /\ orders[o].positionID = x.id /\ orders[o].type = "market"
                /\ orders[o].status = "filled"

OrderRank(st) ==
  IF st = "pending" THEN 0 ELSE IF st = "open" THEN 1
  ELSE IF st = "partially_filled" THEN 2 ELSE 3

C11_FilledWithinQuantity ==
  \A o \in 1..Len(orders) : orders[o].filled <= orders[o].qty

\* C12: every Position row in a terminal status has closed_at set and no
\* unrealized PnL, whichever path closed it.
C12_TerminalPositionRecord ==
  \A i \in 1..Len(positions) :
    positions[i].status \in ClosedStatuses
      => positions[i].closedAt /\ positions[i].upnl = 0

\* C13: a Position row in a terminal status stays in a terminal status: no
\* step (PnL refresh, SL/TP sweep, strategy action, reconciliation of a late
\* fill) gives it a non-terminal status again.
C13_TerminalIsFinal ==
  [][\A i \in 1..Len(positions) :
       positions[i].status \in ClosedStatuses => positions'[i].status \in ClosedStatuses
    ]_vars

\* the sell order of a position the strategy had closed was reconciled as filled,
\* and the position is still closed
C13_Witness ==
  /\ last.kind = "tickA"
  /\ \E tx \in Txs :
       /\ tx.p # 0
       /\ tx.posBefore.status \in ClosedStatuses
       /\ tx.ordBefore.status # "filled" /\ tx.ordAfter.status = "filled"
       /\ positions[tx.p].status \in ClosedStatuses

----------------------------------------------------------------------------
(* Properties of the pre-trade risk gate and of the strategy step *)

\* rows of pair s that were open when the last tick started and that no SL/TP
\* trigger of the tick fired for
SurvivorsOf(s) ==
  {i \in 1..Len(last.pre) :
     /\ last.pre[i].pair = s /\ last.pre[i].status \in {"open", "partial"}
     /\ ~\E x \in last.trig : x.id = i}

RECURSIVE SumQty(_, _)
SumQty(pos, S) ==
  IF S = {} THEN 0
  ELSE LET i == CHOOSE j \in S : TRUE IN pos[i].qty + SumQty(pos, S \ {i})

\* the exposure of the pair's surviving open rows at the latest price
ExposureOf(s) ==
  SumQty(last.pre, {i \in SurvivorsOf(s) : last.pre[i].status = "open"})
    * GetLatestPrice(hist, s)

\* the orders the strategy step of the last tick placed for symbol s
StrategyPlacedFor(s) ==
  {k \in PlacedFor(s) : last.placed[k].why \in {"buy", "sell"}}

\* C14: a position the SL/TP sweep closed takes no part in the later steps of
\* the tick: the only order placed for it is the order of its trigger, never a
\* strategy sell, and the risk gate does not count it, so that a BUY goes
\* through when the remaining positions are within the limits.
C14_ClosedExcludedInTick ==
  last.kind = "tickB" =>
    /\ \A x \in last.trig : \A k \in 1..Len(last.placed) :
         last.placed[k].pos = x.id => last.placed[k].why = x.why
    /\ \A s \in last.swept :
         ( /\ last.sig[s] = "BUY" /\ last.fault = "none"
           /\ Cardinality(SurvivorsOf(s)) < MaxPositionsPerPair
           /\ ExposureOf(s) <= MaxPositionsPerPair * DefaultPositionSize )
         => \E k \in PlacedFor(s) : last.placed[k].why = "buy"

\* the sweep closed one position of X and, in the same tick, the strategy sold another
C14_Witness ==
  /\ last.kind = "tickB"
  /\ \E x \in last.trig :
       /\ positions[x.id].status \in ClosedStatuses
       /\ last.pre[x.id].status = "open"
       /\ \E k \in PlacedFor("X") :
            last.placed[k].why = "sell" /\ last.placed[k].pos # x.id

\* the gate's condition as it is stated: the count of the pair's open
\* positions has reached the maximum, or their exposure at the current price
\* is above the maximum count times the default position size
GateDenies(s) ==
  \/ Cardinality(SurvivorsOf(s)) >= MaxPositionsPerPair
  \/ ExposureOf(s) > MaxPositionsPerPair * DefaultPositionSize

NonTerminalOf(pos, s) ==
  {i \in 1..Len(pos) : pos[i].pair = s /\ pos[i].status \notin ClosedStatuses}

----------------------------------------------------------------------------
(* Properties of the order-placing actions *)

\* the tick that led to the state met fault f
TickMet(l, f) == l.kind \in {"tickA", "tickB"} /\ "fault" \in DOMAIN l /\ l.fault = f

\* what an order-placing action writes of a position row
ActionFields(p) == <<p.status, p.closedAt, p.rpnl, p.qty, p.entry, p.side, p.pair>>

\* C17: the exchange request of an order-placing action (opening buy, SL/TP
\* close, strategy sell) returns success before any position or order row of
\* the action is written: a tick whose exchange calls fail places nothing, adds
\* no row and closes no position, and in any tick every new order row, every
\* new position and every newly closed position has an accepted request.
C17_ExchangeBeforeRows ==
  [][ (last'.kind \in {"tickA", "tickB"} /\ "fault" \in DOMAIN last')
        => /\ TickMet(last', "exchange")
                => /\ last'.placed = <<>>
                   /\ Len(orders') = Len(orders)
                   /\ Len(positions') = Len(positions)
                   /\ \A i \in 1..Len(positions) :
                        ActionFields(positions'[i]) = ActionFields(positions[i])
           /\ Len(orders') - Len(orders) <= Len(last'.placed)
           /\ Len(positions') - Len(positions)
                <= Cardinality({k \in 1..Len(last'.placed) : last'.placed[k].why = "buy"})
           /\ \A i \in 1..Len(positions) :
                (positions[i].status \notin ClosedStatuses
                   /\ positions'[i].status \in ClosedStatuses)
                  => \E k \in 1..Len(last'.placed) : last'.placed[k].pos = i
    ]_vars

\* a tick whose exchange calls failed had an SL/TP trigger fire and a BUY to
\* act on; the position is still open and nothing was placed
C17_Witness ==
  /\ TickMet(last, "exchange")
  /\ last.sig["X"] = "BUY"
  /\ \E t \in last.trig : positions[t.id].status = "open"
  /\ Cardinality(NonTerminalOf(positions, "X")) < MaxPositionsPerPair
  /\ last.placed = <<>>

----------------------------------------------------------------------------
(* Properties of the reconciliation under failed status queries *)

\* the orders the tick found non-final, and those among them whose query failed
NonFinalBefore(l) ==
  {o \in 1..Len(l.preOrders) : l.preOrders[o].status \in NonFinalStatuses}

FailedPolls(l) ==
  {o \in NonFinalBefore(l) : getOrderStatusFails(l.preOrders, o, l.fault)}

\* C18: when the status query of a non-final order fails, the reconciliation
\* leaves the order row and its position as they were, deletes nothing, goes on
\* with the remaining orders, and the order is queried again by the next tick.
C18_FailedPollSkipsOrder ==
  [][ (last'.kind = "tickA" /\ "preOrders" \in DOMAIN last')
        => /\ Len(orders') >= Len(orders) /\ Len(positions') >= Len(positions)
           /\ \A o \in FailedPolls(last') :
                /\ orders'[o] = orders[o]
                /\ orders[o].positionID # 0
                     => positions'[orders[o].positionID] = positions[orders[o].positionID]
                /\ orders'[o].status \in NonFinalStatuses
           /\ \A o \in NonFinalBefore(last') :
                \E k \in 1..Len(last'.txs) :
                  /\ last'.txs[k].o = o
                  /\ last'.txs[k].polled = (o \notin FailedPolls(last'))
           /\ \A o \in NonFinalBefore(last') \ FailedPolls(last') :
                LET d == GetOrderStatus(exch[orders[o].kucoinOrderID])
                IN Len(d.status) <= StatusColumnWidth
                     => orders'[o].status = d.status /\ orders'[o].filled = d.dealSize
    ]_vars

\* the query of the oldest order failed while the exchange had matched both
\* orders: the first order is as before, the second is filled
C18_Witness ==
  /\ last.kind = "tickA" /\ "preOrders" \in DOMAIN last
  /\ last.fault = "getOrderStatusOldest"
  /\ FailedPolls(last) = {1}
  /\ exch[1].deal > 0 /\ orders[1].status = "pending" /\ orders[1].filled = 0
  /\ positions[1].status = "open_pending"
  /\ last.preOrders[2].status = "pending" /\ orders[2].status = "filled"

----------------------------------------------------------------------------
(* Properties of the reconciliation of fills *)

\* C19: when a non-final order is linked to a position waiting for its first
\* fill and the exchange reports the order partially filled (or filled) with
\* dealSize D at price p, then after the tick the order has the exchange's
\* status and filled_quantity D, and the position is open with entry_price p
\* and quantity D.
C19_FirstFillOpensPosition ==
  [][ (last'.kind = "tickA" /\ "preOrders" \in DOMAIN last' /\ last'.fault = "none")
        => \A o \in NonFinalBefore(last') :
             LET d == GetOrderStatus(exch[orders[o].kucoinOrderID])
                 P == orders[o].positionID
             IN (P # 0 /\ positions[P].status = "open_pending"
                   /\ d.status \in {"partially_filled", "filled"})
                  => /\ orders'[o].status = d.status
                     /\ orders'[o].filled = d.dealSize
                     /\ positions'[P].status = "open"
                     /\ positions'[P].entry = d.price
                     /\ positions'[P].qty = d.dealSize
    ]_vars

\* the example: the order was open with a fifth filled, its position waited for
\* the first fill, the exchange reports half matched at 100; after the tick the
\* order is partially_filled with half filled and the position is open at 100
\* with that quantity
C19_Witness ==
  /\ last.kind = "tickA" /\ "preOrders" \in DOMAIN last /\ last.fault = "none"
  /\ last.preOrders[1].status = "open"
  /\ last.preOrders[1].filled = FixtureQty \div 5
  /\ last.pre[1].status = "open_pending"
  /\ exch[1].active /\ exch[1].deal = FixtureQty \div 2
  /\ orders[1].status = "partially_filled" /\ orders[1].filled = FixtureQty \div 2
  /\ positions[1].status = "open" /\ positions[1].entry = 100
  /\ positions[1].qty = FixtureQty \div 2

----------------------------------------------------------------------------
(* Properties of the Pair Selector *)


C22_SelectionSize ==
  last.kind = "SelectTopPairs"
    => /\ Len(last.selected) = (IF last.maxPairs < last.candidates THEN last.maxPairs
                                 ELSE last.candidates)
       /\ \A i, j \in 1..Len(last.selected) :
            last.selected[i] = last.selected[j] => i = j

\* more candidates than slots, all of one risk level: two of the three buckets
\* are empty and the third is short, and the selection is filled up
C22_Witness ==
  /\ last.kind = "SelectTopPairs"
  /\ last.maxPairs = MaxActivesPairs /\ last.candidates > last.maxPairs
  /\ last.risks = {"low"}
  /\ Len(last.selected) = MaxActivesPairs

\* C23: a pair whose 24h volume is below the minimum, whose volatility is
\* outside [MinVolatility, MaxVolatility] or that has fewer than 20 price
\* points is left out of the analyses without an error; every other pair whose
\* history could be read is analysed; and no dropped pair is active after a
\* cycle that published.
C23_DroppedPairs ==
  last.kind = "selectMeasuredPairs"
    => /\ last.analysed \cap last.dropped = {}
       /\ last.analysed = last.passing
       /\ last.published => ActiveSymbols(selected_pairs) \cap last.dropped = {}

\* a cycle that dropped a pair which was active, analysed the others, met a
\* pair whose history could not be read, and published
C23_Witness ==
  /\ last.kind = "selectMeasuredPairs" /\ last.published
  /\ last.dropped \cap last.activeBefore # {}
  /\ last.failed # {}
  /\ last.analysed # {}
  /\ ActiveSymbols(selected_pairs) = last.analysed

\* C24: in a tick in which the indicators of a pair cannot be computed, the
\* signal of the pair is HOLD with the low strength 0.1, and the strategy step
\* places no order for the pair.
C24_IndicatorErrorHolds ==
  (last.kind = "tickI" /\ last.failed)
    => /\ last.signal.Action = "HOLD"
       /\ last.signal.Strength = 10
       /\ last.signal.Strength < 50
       /\ StrategyPlacedFor("X") = {}

\* a tick without a signal for lack of indicators, in which the SL/TP sweep
\* still closed a position of the pair
C24_Witness ==
  /\ last.kind = "tickI" /\ last.failed /\ last.fault = "none"
  /\ last.signal.Action = "HOLD"
  /\ PlacedFor("X") # {}
  /\ StrategyPlacedFor("X") = {}

\* C25: a tick of the basic strategy with signal BUY, room for a position and
\* no failing call submits one limit buy at the current price sized
\* position size / price, creates a Position with status open_pending and a
\* pending Order linked to that Position.
C25_BuyOpensPending ==
  ( /\ last.kind = "tickA" /\ last.fault = "none" /\ last.sig["X"] = "BUY"
    /\ \E k \in StrategyPlacedFor("X") : last.placed[k].why = "buy" )
    => /\ \A k \in StrategyPlacedFor("X") :
            last.placed[k].req = PlaceBuyOrder("X", DefaultPositionSize \div hist["X"][1],
                                               hist["X"][1])
       /\ Cardinality(StrategyPlacedFor("X")) = 1
       /\ Len(positions) = Len(last.pre) + 1
       /\ positions[Len(positions)].status = "open_pending"
       /\ orders # <<>>
       /\ orders[Len(orders)].status = "pending"
       /\ orders[Len(orders)].positionID = Len(positions)

\* the long positions of X that were open when the strategy step of the last
\* tick ran and are in profit at the current price
ProfitableLongs ==
  {i \in 1..Len(last.pre) :
     /\ last.pre[i].pair = "X" /\ last.pre[i].status \in {"open", "partial"}
     /\ last.pre[i].side = "buy"
     /\ GetLatestPrice(hist, "X") > last.pre[i].entry
     /\ i \notin {x.id : x \in last.trig}}

\* C26: a tick of the basic strategy with signal SELL closes at most one
\* position, the oldest long in profit, with a market order; with no long in
\* profit or with signal HOLD the strategy places no order.
C26_SellClosesOldestProfitable ==
  (last.kind \in {"tickA", "tickB"} /\ last.fault = "none")
    => /\ Cardinality(StrategyPlacedFor("X")) <= 1
       /\ \A k \in StrategyPlacedFor("X") :
            last.placed[k].why = "sell"
              => /\ last.sig["X"] = "SELL"
                 /\ ProfitableLongs # {}
                 /\ \A i \in ProfitableLongs : last.placed[k].pos <= i
                 /\ last.placed[k].req.type = "market"
       /\ (last.sig["X"] = "HOLD" \/ (last.sig["X"] = "SELL" /\ ProfitableLongs = {}))
            => StrategyPlacedFor("X") = {}

\* C27: no error of a tick ends the loop: Run returns only after the context
\* was cancelled, so after a tick that failed the next tick still runs; and a
\* tick that neither failed as a whole nor was halted has attempted every
\* active pair, whatever failed for one of them.
C27_ErrorsDoNotStopRun ==
  /\ run.pc = "exited" => run.ctxDone
  /\ ~run.ctxDone => run.pc = "select"
  /\ (last.kind = "tickB" /\ ~last.err /\ ~last.halted)
       => last.swept \cup last.fhalted \cup last.perr
            = {ActivePairs[k] : k \in 1..Len(ActivePairs)}

\* after an earlier cycle failed as a whole, a tick in which the exchange
\* refused the buy order of the first pair went on to the second pair, and the
\* loop is still running
C27_Witness ==
  /\ last.kind = "tickB" /\ last.loggedBefore /\ ~run.ctxDone
  /\ last.fault = "exchange" /\ last.signal["X"] = "BUY" /\ last.placed = <<>>
  /\ ~last.err /\ ~last.halted
  /\ last.swept = {ActivePairs[k] : k \in 1..Len(ActivePairs)}
  /\ run.pc = "select"

\* C28: once the shutdown signal has cancelled the context, the main loop
\* starts no new tick.
C28_NoTickAfterCancel ==
  last.kind = "tickB" => ~last.afterCancel

\* C29: for a limiter of R requests per second, no more than R calls to Wait
\* return within any one-second interval.
C29_AtMostRPerSecond ==
  Len(calls) <= limiter.capacity

\* C30: every HTTP request sent to the exchange, ticker fetch, order placement
\* or order-status query, is preceded by acquiring exactly one token.
C30_OneTokenPerRequest ==
  last.kind = "http" => last.tokens = 1

\* C31: for every symbol at most one order execution is in flight at any
\* time, and a call of executeOrderSafe for a symbol that has an execution
\* started or in flight starts no second one.
C31_OneInFlightPerSymbol ==
  /\ orderState.map # "panic"
       => \A s \in Symbols : Cardinality(InFlight(orderState, s)) <= 1
  /\ (last.kind = "executeOrderSafe" /\ last.live) => ~last.started

\* C32: a grid slot fires only when no open position of the pair has its
\* entry price within 0.1 percent of the slot's level.
C32_OccupiedSlotNeverFires ==
  last.kind = "grid" =>
    \A k \in 1..Len(last.fired) : \A i \in 1..Len(positions) :
      positions[i].status = "open"
        => absDiff(positions[i].entry, last.fired[k].Price) * 1000 >= last.fired[k].Price

\* a tick at the price of a sell level: the slot would fire, but a position
\* entered 0.099 percent above the level holds it, and nothing fires
C32_Witness ==
  /\ last.kind = "grid" /\ last.cur = 100000 /\ last.config.PriceRangeMin = 100000
  /\ Len(positions) = 1 /\ positions[1].entry = 100099
  /\ last.fired = <<>>

\* C33: when the price crosses down through an eligible buy level, a level
\* that was below the price before the cross, or up through an eligible sell
\* level, the slot fires, and firing inserts a limit order at that level.
C33_CrossFiresLimitOrder ==
  (last.kind = "grid" /\ last.config.PriceRangeMin # 0) =>
    \A k \in 1..Len(last.levels) :
      LET level == last.levels[k]
          down == last.prev > level.Price /\ last.cur <= level.Price
          up == last.prev < level.Price /\ last.cur >= level.Price
      IN ((down \/ up) /\ shouldPlaceOrder(level, last.cur, positions))
           => /\ \E j \in 1..Len(last.fired) : last.fired[j].Price = level.Price
              /\ \E j \in 1..Len(exch) : exch[j].active /\ exch[j].price = level.Price

\* C34: each position is closed on the exchange at most once: a position for
\* which the exchange accepted a close order in one tick gets no second close
\* order accepted in the next tick, whatever write of the first tick failed.
C34_ClosedOnExchangeOnce ==
  [][ (last.kind = "tickA" /\ last'.kind = "tickA")
        => \A k \in 1..Len(last.placed) : \A j \in 1..Len(last'.placed) :
             last.placed[k].pos # 0 => last'.placed[j].pos # last.placed[k].pos ]_vars

\* C35: a Position is recorded as closed only after its closing order has
\* been reported filled: no closed Position has a closing order that is
\* pending, open, or ended without being filled.
C35_ClosedOnlyAfterFill ==
  \A o \in 1..Len(orders) :
    (/\ orders[o].positionID # 0
     /\ orders[o].side = Opposite(positions[orders[o].positionID].side)
     /\ positions[orders[o].positionID].status \in ClosedStatuses)
      => orders[o].status = "filled"

\* C36: reconciliation finishes each order's transaction before it begins the
\* next one, so it never holds more than one open transaction.
C36_OneOpenTransaction ==
  last.kind = "tickA" => Cardinality(openAtLoopEnd(last.txs)) <= 1

\* the positions of pair s that were open before the last tick and are open
\* after it, on the exchange and in the table: no close order was accepted
\* for them
StillOpenOf(s) ==
  {i \in 1..Len(last.pre) :
     /\ last.pre[i].pair = s /\ last.pre[i].status = "open"
     /\ positions[i].status = "open"
     /\ \A k \in 1..Len(last.placed) : last.placed[k].pos # i}

\* C37: the pre-trade risk gate counts every position of the pair that is
\* still open, a position whose close attempt failed in the tick included: a
\* tick places a buy for a pair only when fewer than MaxPositionsPerPair of
\* its positions are still open.
C37_FailedCloseKeepsSlot ==
  (last.kind = "tickB" /\ "pre" \in DOMAIN last) =>
    \A s \in last.swept :
      (\E k \in PlacedFor(s) : last.placed[k].why = "buy")
        => Cardinality(StillOpenOf(s)) < MaxPositionsPerPair

\* the price has reached the stop-loss level of open position p under a
\* stop-loss percentage sl
ReachedStopLoss(p, price, sl) ==
  IF p.side = "buy" THEN price * 100 <= p.entry * (100 - sl)
                    ELSE price * 100 >= p.entry * (100 + sl)

ReachedTakeProfit(p, price, tp) ==
  IF p.side = "buy" THEN price * 100 >= p.entry * (100 + tp)
                    ELSE price * 100 <= p.entry * (100 - tp)

\* C38: stop-loss is enforced whenever stop_loss_percent > 0, whatever
\* take_profit_percent is, and take-profit whenever take_profit_percent > 0,
\* whatever stop_loss_percent is.
C38_StopLossAlone ==
  (last.kind = "sltp" /\ positions[1].status = "open") =>
    /\ ( /\ last.config.StopLossPercent > 0
          /\ ReachedStopLoss(positions[1], last.price, last.config.StopLossPercent) )
         => last.reason = "stop-loss"
    /\ ( /\ last.config.TakeProfitPercent > 0
          /\ ReachedTakeProfit(positions[1], last.price, last.config.TakeProfitPercent)
          /\ ~( /\ last.config.StopLossPercent > 0
                /\ ReachedStopLoss(positions[1], last.price, last.config.StopLossPercent) ) )
         => last.reason = "take-profit"

----------------------------------------------------------------------------
(* The Scheduler of the Pair Selector: Start registers selectPairs with the
   cron library and starts one more run of it with `go`.  The cron library
   starts every firing in a goroutine of its own; neither the Scheduler nor
   selectPairs nor UpdateSelectedPairs holds a mutex or a running flag.  The
   variable cron holds the runs of selectPairs that have started and not
   returned, in cron.running, and the firings of the schedule so far, in
   cron.fired.  Each run publishes in a transaction of its own (READ COMMITTED):
   a statement works on the rows committed when it starts, waits while another
   transaction holds the lock of a row it writes, and keeps the locks of the
   rows it wrote until Commit or Rollback. *)

\* the firings of the schedule in one behaviour
MaxFirings == 2

\* the runs of selectPairs alive at the same time
MaxCycles == 2

\* a run of selectPairs that has just been started
NewCycle(origin) == [origin |-> origin, pc |-> "analyze", next |-> {}, snap |-> {}, writes |-> {}]

\* Scheduler.Start: AddFunc, cron.Start, go s.selectPairs(ctx)
Start(s) == [s EXCEPT !.running = Append(@, NewCycle("startup"))]

\* the symbols of the rows the other runs have written and not committed
LockedByOthers(s, i) ==
  UNION {{w.symbol : w \in s[j].writes} : j \in (1..Len(s)) \ {i}}

\* the next statement of run i can proceed
CanStep(s, i) ==
  CASE s[i].pc = "deactivating" -> s[i].snap \cap LockedByOthers(s, i) = {}
    [] s[i].pc = "deactivated" -> s[i].next \cap LockedByOthers(s, i) = {}
    [] OTHER -> TRUE

\* the next step of run i of selectPairs, with selection outcome c and under
\* fault f: the runs and the committed rows after it
selectPairsStep(s, i, committed, c, f) ==
  LET g == s[i]
      returned == RemoveAt(s, i)
      failed == [cron |-> returned, committed |-> committed, outcome |-> "failed"]
      goto(h) == [cron |-> [s EXCEPT ![i] = h], committed |-> committed, outcome |-> h.pc]
  IN CASE g.pc = "analyze" ->
            IF f = "analyzePairs" THEN failed
            ELSE goto([g EXCEPT !.pc = "begun",
                                !.next = {c.selectedPairs[k].Symbol : k \in 1..Len(c.selectedPairs)}])
       [] g.pc = "begun" ->
            goto([g EXCEPT !.pc = "deactivating", !.snap = {r.symbol : r \in committed}])
       [] g.pc = "deactivating" ->
            goto([g EXCEPT !.pc = IF g.next = {} THEN "inserted" ELSE "deactivated",
                           !.snap = {},
                           !.writes = {[symbol |-> x, status |-> "inactive"] : x \in g.snap}])
       [] g.pc = "deactivated" ->
            IF f = "insert" THEN failed
            ELSE goto([g EXCEPT !.pc = "inserted",
                                !.writes = {w \in g.writes : w.symbol \notin g.next}
                                             \cup {[symbol |-> x, status |-> "active"] : x \in g.next}])
       [] g.pc = "inserted" ->
            IF f = "commit" THEN failed
            ELSE [cron |-> returned,
                  committed |-> {r \in committed : r.symbol \notin {w.symbol : w \in g.writes}}
                                  \cup g.writes,
                  outcome |-> "commit"]

InitC ==
  /\ now = 1
  /\ hist = [s \in Symbols |-> <<100>>]
  /\ positions = <<>>
  /\ orders = <<>>
  /\ strategy = [s \in Symbols |-> "basic"]
  /\ portfolioTradingHaltedUntil = 0
  /\ pairFlashCrashHaltedUntil = [s \in Symbols |-> 0]
  /\ exch = <<>>
  /\ selected_pairs \in StartRowsSel
  /\ pubTx = NoTx
  /\ limiter = NewRateLimiter(1)
  /\ calls = <<>>
  /\ run = NewRun
  /\ orderState = NewOrderState
  /\ pairState = NewPairState
  /\ cron = Start(NewScheduler)
  /\ last = NoLast

\* AnalyzePairs and SelectTopPairs run in the first step of a run only
OutcomesAt(g) ==
  IF g.pc = "analyze" THEN SelectionOutcomes ELSE {[analyses |-> 0, selectedPairs |-> <<>>]}

\* the errors the step at g.pc can return
FaultsAt(g) ==
  {"none"} \cup CASE g.pc = "analyze" -> {"analyzePairs"}
                  [] g.pc = "deactivated" -> {"insert"}
                  [] g.pc = "inserted" -> {"commit"}
                  [] OTHER -> {}

\* the schedule fires: the cron library starts selectPairs in a new goroutine
CronFires ==
  /\ cron.fired < MaxFirings
  /\ Len(cron.running) < MaxCycles
  /\ cron' = [fired |-> cron.fired + 1, running |-> Append(cron.running, NewCycle("cron"))]
  /\ last' = [kind |-> "cronFires", running |-> Len(cron.running)]
  /\ UNCHANGED <<orderState, pairState, now, hist, positions, orders, strategy, selected_pairs,
                 pubTx, limiter, calls, run, portfolioTradingHaltedUntil,
                 pairFlashCrashHaltedUntil, exch>>

\* one of the runs of selectPairs takes its next step
cycleStep ==
  \E i \in 1..Len(cron.running) : \E c \in OutcomesAt(cron.running[i]) :
    \E f \in FaultsAt(cron.running[i]) :
    /\ CanStep(cron.running, i)
    /\ \E r \in {selectPairsStep(cron.running, i, selected_pairs, c, f)} :
         /\ cron' = [cron EXCEPT !.running = r.cron]
         /\ selected_pairs' = r.committed
         /\ last' = [kind |-> r.outcome, origin |-> cron.running[i].origin,
                     next |-> cron.running[i].next, others |-> Len(cron.running) - 1]
    /\ UNCHANGED <<orderState, pairState, now, hist, positions, orders, strategy,
                   pubTx, limiter, calls, run, portfolioTradingHaltedUntil,
                   pairFlashCrashHaltedUntil, exch>>

NextC == CronFires \/ cycleStep

SpecC == InitC /\ [][NextC]_vars

\* C39: selection cycles are mutually exclusive: at most one run of selectPairs
\* is between its start and its return at any time, and the active set a
\* cycle leaves when it commits is the selection of that cycle.
C39_CyclesMutuallyExclusive ==
  /\ Len(cron.running) <= 1
  /\ last.kind = "commit" => ActiveSymbols(selected_pairs) = last.next

----------------------------------------------------------------------------
(* The in-memory pair refresh of the legacy bot (src/unnamed/part_016):
   runPairSelection calls updateTradingPairs on every tick of its ticker, and
   processPriceUpdates reads activePairs under pairMux.RLock.  pairMux is a
   sync.RWMutex: Lock waits until no goroutine holds the mutex, whoever the
   holder is.  pairState.pairMux names the holder, pairState.pc is the
   position of the refresh goroutine, pairState.reader that of
   processPriceUpdates.  The daily volume of pair k is k. *)

tradingPairLimit == 8

\* the USDT tickers the exchange lists
MaxTickers == 9

\* the tickers of one response that meet the criteria: none, or the pairs
\* from a to b
TickersMeetingCriteria == {a..b : a, b \in 1..MaxTickers}

\* the errors of GetAllTickers
FaultsT == {"none", "tickers"}

\* the k elements of S with the highest daily volume
RECURSIVE TopByVolume(_, _)
TopByVolume(S, k) ==
  IF k = 0 \/ S = {} THEN {}
  ELSE LET m == CHOOSE x \in S : \A y \in S : y <= x
       IN {m} \cup TopByVolume(S \ {m}, k - 1)

\* trimPairs, from its Lock on; unreachable while the caller holds pairMux
trimPairs(ps) ==
  [ps EXCEPT !.activePairs = IF Cardinality(ps.activePairs) > tradingPairLimit
                             THEN TopByVolume(ps.activePairs, tradingPairLimit)
                             ELSE ps.activePairs,
             !.pairMux = "free", !.pc = "trimmed"]

\* the refresh goroutine can take its next step
CanRefresh(ps) ==
  ps.pc \in {"Lock", "trimPairs"} => ps.pairMux = "free"

\* the next step of updateTradingPairs on response resp, under fault f
updateTradingPairs(ps, resp, f) ==
  CASE ps.pc = "idle" ->
         IF f = "tickers" THEN ps ELSE [ps EXCEPT !.pc = "Lock", !.resp = resp]
    [] ps.pc = "Lock" ->
         [ps EXCEPT !.pc = "locked", !.pairMux = "updateTradingPairs"]
    [] ps.pc = "locked" ->
         LET added == ps.activePairs \cup ps.resp
         IN IF Cardinality(added) > tradingPairLimit
            THEN [ps EXCEPT !.activePairs = added, !.resp = {}, !.pc = "trimPairs"]
            ELSE [ps EXCEPT !.activePairs = added, !.resp = {}, !.pc = "idle",
                            !.pairMux = "free"]
    [] ps.pc = "trimPairs" -> trimPairs(ps)
    [] ps.pc = "trimmed" -> [ps EXCEPT !.pc = "idle", !.pairMux = "free"]

\* the next step of processPriceUpdates: an update arrives, RLock, RUnlock
processPriceUpdates(ps) ==
  CASE ps.reader = "idle" -> [ps EXCEPT !.reader = "RLock"]
    [] ps.reader = "RLock" -> [ps EXCEPT !.reader = "reading", !.pairMux = "processPriceUpdates"]
    [] ps.reader = "reading" -> [ps EXCEPT !.reader = "idle", !.pairMux = "free"]

InitT ==
  /\ now = 1
  /\ hist = [s \in Symbols |-> <<100>>]
  /\ positions = <<>>
  /\ orders = <<>>
  /\ strategy = [s \in Symbols |-> "basic"]
  /\ portfolioTradingHaltedUntil = 0
  /\ pairFlashCrashHaltedUntil = [s \in Symbols |-> 0]
  /\ exch = <<>>
  /\ selected_pairs = {}
  /\ pubTx = NoTx
  /\ limiter = NewRateLimiter(1)
  /\ calls = <<>>
  /\ run = NewRun
  /\ orderState = NewOrderState
  /\ pairState = NewPairState
  /\ cron = NewScheduler
  /\ last = NoLast

\* runPairSelection: the refresh goroutine takes its next step
refreshStep ==
  /\ CanRefresh(pairState)
  /\ \E resp \in (IF pairState.pc = "idle" THEN TickersMeetingCriteria ELSE {{}}) :
       \E f \in (IF pairState.pc = "idle" THEN FaultsT ELSE {"none"}) :
         /\ pairState' = updateTradingPairs(pairState, resp, f)
         /\ last' = [kind |-> "updateTradingPairs", pc |-> pairState.pc, fault |-> f]
  /\ UNCHANGED <<orderState, cron, now, hist, positions, orders, strategy, selected_pairs,
                 pubTx, limiter, calls, run, portfolioTradingHaltedUntil,
                 pairFlashCrashHaltedUntil, exch>>

\* processPriceUpdates takes its next step
readerStep ==
  /\ pairState.reader = "RLock" => pairState.pairMux = "free"
  /\ pairState' = processPriceUpdates(pairState)
  /\ last' = [kind |-> "processPriceUpdates", pc |-> pairState.reader, fault |-> "none"]
  /\ UNCHANGED <<orderState, cron, now, hist, positions, orders, strategy, selected_pairs,
                 pubTx, limiter, calls, run, portfolioTradingHaltedUntil,
                 pairFlashCrashHaltedUntil, exch>>

NextT == refreshStep \/ readerStep

SpecT == InitT /\ [][NextT]_vars

\* C40: the pair refresh always terminates and releases pairMux: it never
\* waits for pairMux while holding it itself, and whenever it is back in the
\* ticker loop the lock is not held by it and activePairs has at most
\* tradingPairLimit entries.
C40_RefreshReleasesPairMux ==
  /\ ~(pairState.pc = "trimPairs" /\ pairState.pairMux = "updateTradingPairs")
  /\ pairState.pc = "idle" =>
       /\ pairState.pairMux # "updateTradingPairs"
       /\ Cardinality(pairState.activePairs) <= tradingPairLimit

====
